---------------------------- MODULE Spec2Model ----------------------------
(***************************************************************************)
(* Flashcard review scheduling and quiz grading of the EduAI platform        *)
(* server.                                                                 *)
(*                                                                         *)
(* The flashcard routes (src/services/aiService.js, lines 254-449) run      *)
(* against the MySQL pool of src/database/db.js and the flashcards and      *)
(* users tables of src/database/schema-cpanel.sql.  Every request handler   *)
(* is an async function: each `await db.query(...)` is a point where other  *)
(* handlers may run, so a handler is modelled as one action per statement   *)
(* executed by the database, each followed by the synchronous code up to    *)
(* the next await.                                                          *)
(*                                                                         *)
(* Units.  Difficulty values are held in tenths (1.0 is 10, 0.2 is 2), so   *)
(* that the fractional values the handler computes are exact integers       *)
(* here.  Timestamps are seconds.                                           *)
(*                                                                         *)
(* The quiz routes (src/unnamed/part_002) run against the tables quizzes,   *)
(* quiz_questions, quiz_attempts, study_sessions and users.  Strings are    *)
(* sequences of characters, so that toLowerCase and trim are computed; the  *)
(* score, a floating-point quotient in the code, is held as the exact       *)
(* fraction (for totals up to 2000 points the floor of score / 10 computed  *)
(* in doubles is that of the exact quotient).  The points of a question are *)
(* positive: POST /generate stores `points || 1`.                           *)
(*                                                                         *)
(* Time.  The server and the database read one clock.  A statement is       *)
(* executed at most QueryTimeout after the handler sent it, so NOW() in an  *)
(* UPDATE is the handler's `now` plus a latency of at most QueryTimeout.    *)
(***************************************************************************)
EXTENDS Integers, Sequences, FiniteSets

\* ------------------------------------------------------------------ bounds
\* ids the AUTO_INCREMENT counter of flashcards hands out
MaxCards == 2
\* events explored: changes of the database by a request, and days passing
MaxEvents == 2
\* questions of a generated quiz, and answers of a submitted list
MaxQuestions == 2
\* quiz requests explored: quizzes created and submissions started
MaxSubmits == 1
\* longest text given to parseSQLStatements, in characters
MaxSqlLen == 5
\* calls of initializeDatabase explored
MaxRuns == 2
\* queries of one call of initializeDatabase that fail for a reason outside the schema
MaxFaults == 1

\* ------------------------------------------------------- program constants
\* TIMESTAMP NULL: the value of a timestamp column that is not set.
NULL == -1
\* setDate(getDate() + n) moves a Date by n calendar days.
DaySeconds == 86400
\* connectTimeout / acquireTimeout / timeout of the pool: 10000 ms.
QueryTimeout == 10

\* req.user.userId of the authenticated requests
Users == {1, 2}
\* request handlers that can be in progress at the same time
Procs == {1, 2}
\* parseInt(req.params.id)
CardIds == 1..MaxCards

Max(a, b) == IF a >= b THEN a ELSE b
Min(a, b) == IF a <= b THEN a ELSE b

\* Variant: Math.floor in place of Math.ceil.
Ceil_Floor(n, d) == n \div d

\* Math.ceil(n / d) for n >= 0, d > 0.
Ceil(n, d) == IF n % d = 0 THEN n \div d ELSE (n \div d) + 1

\* ------------------------------------------------------------- JS values
\* req.body.difficulty is whatever JSON value the client sent (or nothing).
Num(k) == [t |-> "number", n |-> k]
Grades ==
    {Num(k) : k \in 1..4} \cup {[t |-> "string", n |-> 1], [t |-> "undefined", n |-> 0]}

\* difficulty === k
StrictEq(g, k) == g.t = "number" /\ g.n = k

\* --------------------------------------------------- the review algorithm
\* Variant: the count is written back as it was read.
NewReviewCount_Same(c) == c

\* const reviewCount = flashcard.review_count + 1
NewReviewCount(c) == c + 1

\* Variant: the raised difficulty is not capped at 5.
NewDifficulty_NoCap(d, g) ==
    IF StrictEq(g, 1) THEN Max(10, d - 2)
    ELSE IF StrictEq(g, 2) THEN d
    ELSE IF StrictEq(g, 3) THEN d + 3
    ELSE d + 5

\* Variant: grade 1 is not floored at 1.
NewDifficulty_NoFloor(d, g) ==
    IF StrictEq(g, 1) THEN d - 2
    ELSE IF StrictEq(g, 2) THEN d
    ELSE IF StrictEq(g, 3) THEN Min(50, d + 3)
    ELSE Min(50, d + 5)

\* Variant: grade 3 takes the step of the last branch.
NewDifficulty_HardAsAgain(d, g) ==
    IF StrictEq(g, 1) THEN Max(10, d - 2)
    ELSE IF StrictEq(g, 2) THEN d
    ELSE Min(50, d + 5)

\* Variant: the grades are compared with == (so "1" equals 1) in the chain.
NewDifficulty_LooseEq(d, g) ==
    IF g.t # "undefined" /\ g.n = 1 THEN Max(10, d - 2)
    ELSE IF g.t # "undefined" /\ g.n = 2 THEN d
    ELSE IF g.t # "undefined" /\ g.n = 3 THEN Min(50, d + 3)
    ELSE Min(50, d + 5)

\* difficultyLevel after the if / else-if chain; d is flashcard.difficulty_level.
NewDifficulty(d, g) ==
    IF StrictEq(g, 1) THEN Max(10, d - 2)
    ELSE IF StrictEq(g, 2) THEN d
    ELSE IF StrictEq(g, 3) THEN Min(50, d + 3)
    ELSE Min(50, d + 5)

\* Variant: the interval is computed from the updated difficulty.
IntervalDays_FromUpdated(d, g, nd) ==
    IF StrictEq(g, 1) THEN Ceil(nd * 25, 100)
    ELSE IF StrictEq(g, 2) THEN Ceil(nd * 15, 100)
    ELSE IF StrictEq(g, 3) THEN Ceil(nd * 8, 100)
    ELSE 1

\* intervalDays after the if / else-if chain; d is flashcard.difficulty_level,
\* g the grade, nd the updated difficultyLevel (which the code does not use).
IntervalDays(d, g, nd) ==
    IF StrictEq(g, 1) THEN Ceil(d * 25, 100)
    ELSE IF StrictEq(g, 2) THEN Ceil(d * 15, 100)
    ELSE IF StrictEq(g, 3) THEN Ceil(d * 8, 100)
    ELSE 1

\* Variant: setSeconds in place of setDate.
AddDays_AsSeconds(now, n) == now + n

\* nextReview = new Date(now); nextReview.setDate(nextReview.getDate() + n)
AddDays(now, n) == now + n * DaySeconds

\* Variant: every review earns one point.
PointsEarned_Flat(g) == 1

\* pointsEarned = difficulty === 1 ? 3 : difficulty === 2 ? 2 : 1
PointsEarned(g) == IF StrictEq(g, 1) THEN 3 ELSE IF StrictEq(g, 2) THEN 2 ELSE 1

\* difficulty_level INT: MySQL rounds a decimal value assigned to an integer
\* column to the nearest integer, halves away from zero (x in tenths, x >= 0).
StoreInt(x) == ((x + 5) \div 10) * 10

\* ------------------------------------------------------- quiz: JS values
\* The values of req.body of a quiz submission.  A string is the sequence of
\* its characters.
Str(s) == [t |-> "string", n |-> 0, s |-> s]
Number(k) == [t |-> "number", n |-> k, s |-> <<>>]
Bool(b) == [t |-> "boolean", n |-> IF b THEN 1 ELSE 0, s |-> <<>>]
Undefined == [t |-> "undefined", n |-> 0, s |-> <<>>]
\* answers: an array of values, or nothing.
Array(items) == [t |-> "array", items |-> items]
NoArray == [t |-> "undefined", items |-> <<>>]

\* The truth value JS gives v in `v && ...` and `v || ...`.
Truthy(v) ==
    IF v.t = "string" THEN v.s # <<>>
    ELSE IF v.t = "number" THEN v.n # 0
    ELSE IF v.t = "boolean" THEN v.n = 1
    ELSE FALSE

UpperCase ==
    <<"A", "B", "C", "D", "E", "F", "G", "H", "I", "J", "K", "L", "M",
      "N", "O", "P", "Q", "R", "S", "T", "U", "V", "W", "X", "Y", "Z">>
LowerCase ==
    <<"a", "b", "c", "d", "e", "f", "g", "h", "i", "j", "k", "l", "m",
      "n", "o", "p", "q", "r", "s", "t", "u", "v", "w", "x", "y", "z">>
Digit == <<"0", "1", "2", "3", "4", "5", "6", "7", "8", "9">>
WhiteSpace == {" ", "\t", "\n"}

\* String.prototype.toLowerCase
ToLowerCase(s) ==
    [i \in 1..Len(s) |->
        IF \E k \in 1..26 : UpperCase[k] = s[i]
        THEN LowerCase[CHOOSE k \in 1..26 : UpperCase[k] = s[i]]
        ELSE s[i]]

\* String.prototype.trim
Trim(s) ==
    LET keep == {i \in 1..Len(s) : s[i] \notin WhiteSpace}
    IN IF keep = {} THEN <<>>
       ELSE SubSeq(s, CHOOSE i \in keep : \A j \in keep : i <= j,
                      CHOOSE i \in keep : \A j \in keep : i >= j)

RECURSIVE Digits(_)
\* Number.prototype.toString of an integer k >= 0
Digits(k) == IF k < 10 THEN <<Digit[k + 1]>> ELSE Append(Digits(k \div 10), Digit[(k % 10) + 1])

\* v.toString() of a string, a number or a boolean
ToString(v) ==
    IF v.t = "string" THEN v.s
    ELSE IF v.t = "number" THEN Digits(v.n)
    ELSE IF v.n = 1 THEN <<"t", "r", "u", "e">>
    ELSE <<"f", "a", "l", "s", "e">>

\* ------------------------------------------------------ quiz: the grading
\* Variant: answers[index + 1].
ElementAt_OffByOne(answers, index) ==
    IF index + 2 <= Len(answers.items) THEN answers.items[index + 2] ELSE Undefined

\* answers[index] of an array (index counts from 0): undefined past its end
ElementAt(answers, index) ==
    IF index + 1 <= Len(answers.items) THEN answers.items[index + 1] ELSE Undefined

\* isCorrect = userAnswer && userAnswer.toString().toLowerCase().trim() ===
\*             q.correct_answer.toString().toLowerCase().trim()
\* is userAnswer itself when that is falsy, and the boolean otherwise.
IsCorrect(userAnswer, correct_answer) ==
    IF ~Truthy(userAnswer) THEN userAnswer
    ELSE Bool(Trim(ToLowerCase(ToString(userAnswer))) = Trim(ToLowerCase(correct_answer)))

NoGrade ==
    [threw |-> FALSE, correctAnswers |-> 0, totalPoints |-> 0, earnedPoints |-> 0,
     results |-> <<>>]

RECURSIVE GradeFrom_ByCount(_, _, _, _)
\* Variant: a correct answer earns one point, whatever the question is worth.
GradeFrom_ByCount(questions, answers, index, acc) ==
    IF index >= Len(questions) THEN acc
    ELSE IF answers.t # "array" THEN [acc EXCEPT !.threw = TRUE]
    ELSE LET q == questions[index + 1]
             userAnswer == ElementAt(answers, index)
             isCorrect == IsCorrect(userAnswer, q.correct_answer)
         IN GradeFrom_ByCount(questions, answers, index + 1,
                [acc EXCEPT
                    !.totalPoints = @ + q.points,
                    !.correctAnswers = IF Truthy(isCorrect) THEN @ + 1 ELSE @,
                    !.earnedPoints = IF Truthy(isCorrect) THEN @ + 1 ELSE @,
                    !.results = Append(@, [questionId |-> q.id, correct |-> isCorrect,
                                           correctAnswer |-> q.correct_answer,
                                           userAnswer |-> userAnswer])])

RECURSIVE GradeFrom_ReadsAnswersFirst(_, _, _, _)
\* Variant: answers is read before the loop, so the TypeError of a missing
\* answers is thrown for a quiz without questions as well.
GradeFrom_ReadsAnswersFirst(questions, answers, index, acc) ==
    IF answers.t # "array" THEN [acc EXCEPT !.threw = TRUE]
    ELSE IF index >= Len(questions) THEN acc
    ELSE LET q == questions[index + 1]
             userAnswer == ElementAt(answers, index)
             isCorrect == IsCorrect(userAnswer, q.correct_answer)
         IN GradeFrom_ReadsAnswersFirst(questions, answers, index + 1,
                [acc EXCEPT
                    !.totalPoints = @ + q.points,
                    !.correctAnswers = IF Truthy(isCorrect) THEN @ + 1 ELSE @,
                    !.earnedPoints = IF Truthy(isCorrect) THEN @ + q.points ELSE @,
                    !.results = Append(@, [questionId |-> q.id, correct |-> isCorrect,
                                           correctAnswer |-> q.correct_answer,
                                           userAnswer |-> userAnswer])])

RECURSIVE GradeFrom(_, _, _, _)
\* questions.map((q, index) => ...) from position index on, acc holding
\* correctAnswers, totalPoints, earnedPoints and the results so far.  Reading
\* answers[index] of a missing answers throws a TypeError.
GradeFrom(questions, answers, index, acc) ==
    IF index >= Len(questions) THEN acc
    ELSE IF answers.t # "array" THEN [acc EXCEPT !.threw = TRUE]
    ELSE LET q == questions[index + 1]
             userAnswer == ElementAt(answers, index)
             isCorrect == IsCorrect(userAnswer, q.correct_answer)
         IN GradeFrom(questions, answers, index + 1,
                [acc EXCEPT
                    !.totalPoints = @ + q.points,
                    !.correctAnswers = IF Truthy(isCorrect) THEN @ + 1 ELSE @,
                    !.earnedPoints = IF Truthy(isCorrect) THEN @ + q.points ELSE @,
                    !.results = Append(@, [questionId |-> q.id, correct |-> isCorrect,
                                           correctAnswer |-> q.correct_answer,
                                           userAnswer |-> userAnswer])])

\* score = totalPoints > 0 ? (earnedPoints / totalPoints) * 100 : 0, held as
\* the fraction num / den.
Score(earnedPoints, totalPoints) ==
    IF totalPoints > 0 THEN [num |-> earnedPoints * 100, den |-> totalPoints]
    ELSE [num |-> 0, den |-> 1]

\* Variant: a grading without reward takes a point.
QuizPointsEarned_Penalty(score) ==
    IF score.num \div (score.den * 10) = 0 THEN 0 - 1 ELSE score.num \div (score.den * 10)

\* Variant: Math.round in place of Math.floor.
QuizPointsEarned_Round(score) == (score.num * 2 + score.den * 10) \div (score.den * 20)

\* pointsEarned = Math.floor(score / 10), score >= 0
QuizPointsEarned(score) == score.num \div (score.den * 10)

\* score.toFixed(2), and the value a DECIMAL(5,2) column keeps of score:
\* score rounded to hundredths, held in hundredths (score >= 0).
ToFixed2(score) == (score.num * 200 + score.den) \div (score.den * 2)

\* Variant: the minutes are rounded down.
DurationMinutes_Floor(timeTakenSeconds) ==
    (IF Truthy(timeTakenSeconds) THEN timeTakenSeconds.n ELSE 0) \div 60

\* Math.ceil((timeTakenSeconds || 0) / 60)
DurationMinutes(timeTakenSeconds) ==
    Ceil(IF Truthy(timeTakenSeconds) THEN timeTakenSeconds.n ELSE 0, 60)

\* ------------------------------------------------------------------ state
VARIABLES
    cards,      \* table flashcards: id -> row
    points,     \* users.points: user id -> integer
    nextId,     \* AUTO_INCREMENT counter of flashcards.id
    clock,      \* wall-clock time, seconds
    pc,         \* per handler: where it is suspended
    loc,        \* per handler: its local variables
    res,        \* the response sent by the last step, if it sent one
    events      \* number of events (changes of the database, days) since the server started

\* The quiz routes (src/unnamed/part_002).
VARIABLES
    quizzes,        \* table quizzes: the ids of its rows
    quiz_questions, \* table quiz_questions: a set of rows
    quiz_attempts,  \* table quiz_attempts: its rows in the order of insertion
    study_sessions, \* table study_sessions: its rows in the order of insertion
    qpc,            \* per handler of a quiz route: where it is suspended
    qloc,           \* per handler of a quiz route: its local variables
    qres            \* the response sent by the last step of a quiz route, if it sent one

qvars == <<quizzes, quiz_questions, quiz_attempts, study_sessions, qpc, qloc, qres>>

\* The course and assistant routes (src/unnamed/part_003).
VARIABLES
    enrollments,    \* table enrollments: a set of rows
    cpc,            \* per handler of a course or assistant route: where it is suspended, and its locals
    earned          \* history: per user, the sum of the rewards of the requests answered with success

cvars == <<enrollments, cpc, earned>>

\* parseSQLStatements (src/database/init.js): its argument and its locals.
VARIABLES
    sql,              \* the text to split
    statements,       \* the statements found so far
    currentStatement, \* the text of the statement being read
    inDollarQuote,    \* whether the parser is inside a dollar-quoted string
    dollarTag,        \* the delimiter that opened it
    sqlIndex,         \* i: the position of the next character, counted from 0
    parsed            \* whether the function has returned

pvars == <<sql, statements, currentStatement, inDollarQuote, dollarTag, sqlIndex, parsed>>

\* initializeDatabase (src/database/init.js): the database and its locals.
VARIABLES
    schema_objects,   \* the tables, functions, triggers and indexes of schema public
    users_columns,    \* the profile columns of table users
    ipc,              \* where initializeDatabase is suspended
    stmtIndex,        \* i of the loop over the statements, counted from 0
    successCount,
    skipCount,
    errorCount,
    hasMissingTables,
    returned,         \* what the last call returned
    runs,             \* history: the calls started
    faults,           \* history: the statements of this call that failed for a reason outside the schema
    atStart           \* history: the database when this call started

dvars == <<schema_objects, users_columns, ipc, stmtIndex, successCount, skipCount,
           errorCount, hasMissingTables, returned, runs, faults, atStart>>

\* What the request handlers leave alone.
startup == <<pvars, dvars>>

vars == <<cards, points, nextId, clock, pc, loc, res, events, qvars, cvars, startup>>

NoLoc ==
    [user |-> 0, id |-> 0, grade |-> Num(0),
     flashcard |-> [difficulty_level |-> 0, review_count |-> 0],
     now |-> 0, reviewCount |-> 0, difficultyLevel |-> 0, intervalDays |-> 0,
     nextReview |-> 0, pointsEarned |-> 0]

\* keys: the names of the properties of the JSON body.
NoRes ==
    [status |-> 0, text |-> "", nextReview |-> NULL, difficultyLevel |-> 0,
     flashcardId |-> 0, keys |-> {}]

\* res.status(s).json({error: t}) or res.json({message: t, ...})
Respond(s, t) ==
    [NoRes EXCEPT !.status = s, !.text = t,
                  !.keys = IF s >= 400 THEN {"error"} ELSE {"message"}]

\* The row of a flashcard of user 1 that was created at time 0 and then
\* reviewed at time 0, k times with grade 4 (each review raises the stored
\* difficulty by one and schedules the card a day later) and then m times
\* with grade 2 (each leaves the difficulty and schedules by it).
ReviewedCard(k, m) ==
    LET d == 10 * (k + 1)
    IN [user_id |-> 1, difficulty_level |-> d, review_count |-> k + m,
        last_reviewed |-> IF k + m = 0 THEN NULL ELSE 0,
        next_review |-> IF k + m = 0 THEN 0
                        ELSE IF m = 0 THEN AddDays(0, 1)
                        ELSE AddDays(0, IntervalDays(d, Num(2), d))]

\* The points those reviews earned user 1.
ReviewedPoints(k, m) == k * PointsEarned(Num(4)) + m * PointsEarned(Num(2))

Histories == {<<0, 0>>, <<1, 0>>, <<2, 0>>, <<3, 0>>, <<4, 0>>, <<1, 2>>}

\* The local variables of the handler of POST /:id/submit.
NoQLoc ==
    [user |-> 0, quizId |-> 0, answers |-> NoArray, timeTakenSeconds |-> Undefined,
     totalQuestions |-> 0, grade |-> NoGrade, score |-> Score(0, 0),
     pointsEarned |-> 0]

\* The response of a quiz route.
NoQRes ==
    [status |-> 0, error |-> "", score |-> 0, correctAnswers |-> 0,
     totalQuestions |-> 0, earnedPoints |-> 0, totalPoints |-> 0, results |-> <<>>]

\* The local variables of a handler of a course or assistant route.
NoCLoc == [at |-> "idle", user |-> 0, course |-> 0, progress_percentage |-> 0]

\* No enrollment, no request of the course and assistant routes.
NoCourses ==
    /\ enrollments = {}
    /\ cpc = [p \in Procs |-> NoCLoc]
    /\ earned = [u \in Users |-> 0]

\* parseSQLStatements is not called.
NoParse ==
    /\ sql = <<>>
    /\ statements = <<>>
    /\ currentStatement = <<>>
    /\ inDollarQuote = FALSE
    /\ dollarTag = <<>>
    /\ sqlIndex = 0
    /\ parsed = FALSE

\* initializeDatabase is not called: the schema is in place.
NoSetup ==
    /\ schema_objects = {}
    /\ users_columns = {}
    /\ ipc = "idle"
    /\ stmtIndex = 0
    /\ successCount = 0
    /\ skipCount = 0
    /\ errorCount = 0
    /\ hasMissingTables = "undefined"
    /\ returned = "none"
    /\ runs = 0
    /\ faults = 0
    /\ atStart = [objects |-> {}, columns |-> {}, enabled |-> FALSE, initialized |-> FALSE]

\* No quiz, no request of the quiz routes.
NoQuizzes ==
    /\ quizzes = {}
    /\ quiz_questions = {}
    /\ quiz_attempts = <<>>
    /\ study_sessions = <<>>
    /\ qpc = [p \in Procs |-> "idle"]
    /\ qloc = [p \in Procs |-> NoQLoc]
    /\ qres = NoQRes

\* The server starts on a database that is empty, or that holds one flashcard
\* left by earlier reviews.
Init ==
    /\ \/ /\ cards = [i \in {} |-> 0]
          /\ points = [u \in Users |-> 0]
          /\ nextId = 1
       \/ \E h \in Histories :
             /\ cards = [i \in {1} |-> ReviewedCard(h[1], h[2])]
             /\ points = [u \in Users |-> IF u = 1 THEN ReviewedPoints(h[1], h[2]) ELSE 0]
             /\ nextId = 2
    /\ clock = 0
    /\ pc = [p \in Procs |-> "idle"]
    /\ loc = [p \in Procs |-> NoLoc]
    /\ res = NoRes
    /\ events = 0
    /\ NoQuizzes
    /\ NoCourses
    /\ NoParse
    /\ NoSetup

\* -------------------------------------------------------------- handlers
\* router.post('/'): create a flashcard for user u.
CreateFlashcard(p, u, hasFront, hasBack) ==
    /\ pc[p] = "idle"
    /\ IF ~hasFront \/ ~hasBack
       THEN /\ res' = Respond(400, "Front and back text are required")
            /\ UNCHANGED <<cards, nextId, events>>
       ELSE /\ nextId <= MaxCards
            /\ events < MaxEvents
            /\ events' = events + 1
            /\ cards' = [i \in DOMAIN cards \cup {nextId} |->
                            IF i = nextId
                            THEN [user_id |-> u, difficulty_level |-> 10,
                                  review_count |-> 0, last_reviewed |-> NULL,
                                  next_review |-> clock]
                            ELSE cards[i]]
            /\ nextId' = nextId + 1
            /\ res' = [Respond(201, "") EXCEPT !.flashcardId = nextId,
                                               !.keys = {"flashcard"}]
    /\ UNCHANGED <<points, clock, pc, loc>>

\* Variant: the handler answers 404 and goes on to the award.
ReviewNotFound_Awards(p, u, id) ==
    /\ pc[p] = "idle"
    /\ ~(id \in DOMAIN cards /\ cards[id].user_id = u)
    /\ res' = Respond(404, "Flashcard not found")
    /\ points' = [points EXCEPT ![u] = @ + PointsEarned(Num(4))]
    /\ UNCHANGED <<cards, nextId, clock, pc, loc, events>>

\* router.post('/:id/review'): the SELECT finds no flashcard with this id
\* that belongs to the user.
ReviewNotFound(p, u, id) ==
    /\ pc[p] = "idle"
    /\ ~(id \in DOMAIN cards /\ cards[id].user_id = u)
    /\ res' = Respond(404, "Flashcard not found")
    /\ UNCHANGED <<cards, points, nextId, clock, pc, loc, events>>

\* router.post('/:id/review'): the SELECT returns the flashcard; the handler
\* reads the clock, computes the schedule and sends the UPDATE of the row.
ReviewSelect(p, u, id, g) ==
    /\ pc[p] = "idle"
    /\ id \in DOMAIN cards /\ cards[id].user_id = u
    /\ events < MaxEvents
    /\ events' = events + 1
    /\ LET f == [difficulty_level |-> cards[id].difficulty_level,
                 review_count |-> cards[id].review_count]
           nd == NewDifficulty(f.difficulty_level, g)
           days == IntervalDays(f.difficulty_level, g, nd)
       IN loc' = [loc EXCEPT ![p] =
                     [NoLoc EXCEPT !.user = u, !.id = id, !.grade = g,
                                   !.flashcard = f,
                                   !.now = clock,
                                   !.reviewCount = NewReviewCount(f.review_count),
                                   !.difficultyLevel = nd,
                                   !.intervalDays = days,
                                   !.nextReview = AddDays(clock, days)]]
    /\ pc' = [pc EXCEPT ![p] = "updating"]
    /\ res' = NoRes
    /\ UNCHANGED <<cards, points, nextId, clock>>

\* Variant: the UPDATE counts in the database (review_count = review_count + 1).
ReviewUpdate_CountsInSql(p, latency) ==
    /\ pc[p] = "updating"
    /\ LET id == loc[p].id
       IN cards' = IF id \in DOMAIN cards
                   THEN [cards EXCEPT ![id].difficulty_level = StoreInt(loc[p].difficultyLevel),
                                      ![id].review_count = @ + 1,
                                      ![id].last_reviewed = loc[p].now + latency,
                                      ![id].next_review = loc[p].nextReview]
                   ELSE cards
    /\ loc' = [loc EXCEPT ![p].pointsEarned = PointsEarned(loc[p].grade)]
    /\ pc' = [pc EXCEPT ![p] = "awarding"]
    /\ res' = NoRes
    /\ UNCHANGED <<points, nextId, clock, events>>

\* The database executes UPDATE flashcards ... WHERE id = ?, at most
\* QueryTimeout after the handler read its clock (NOW() is the database's
\* time of execution); the handler then computes the reward and sends the
\* UPDATE of the user.
ReviewUpdate(p, latency) ==
    /\ pc[p] = "updating"
    /\ LET id == loc[p].id
       IN cards' = IF id \in DOMAIN cards
                   THEN [cards EXCEPT ![id].difficulty_level = StoreInt(loc[p].difficultyLevel),
                                      ![id].review_count = loc[p].reviewCount,
                                      ![id].last_reviewed = loc[p].now + latency,
                                      ![id].next_review = loc[p].nextReview]
                   ELSE cards
    /\ loc' = [loc EXCEPT ![p].pointsEarned = PointsEarned(loc[p].grade)]
    /\ pc' = [pc EXCEPT ![p] = "awarding"]
    /\ res' = NoRes
    /\ UNCHANGED <<points, nextId, clock, events>>

\* Variant: the reward is dropped while another review of the user awaits
\* its own.
ReviewAward_DropsWhenRaced(p) ==
    /\ pc[p] = "awarding"
    /\ points' = IF \E q \in Procs \ {p} : pc[q] = "awarding" /\ loc[q].user = loc[p].user
                 THEN points
                 ELSE [points EXCEPT ![loc[p].user] = @ + loc[p].pointsEarned]
    /\ res' = [Respond(200, "Review recorded") EXCEPT
                  !.nextReview = loc[p].nextReview,
                  !.difficultyLevel = loc[p].difficultyLevel,
                  !.keys = {"message", "nextReview", "difficultyLevel"}]
    /\ pc' = [pc EXCEPT ![p] = "idle"]
    /\ loc' = [loc EXCEPT ![p] = NoLoc]
    /\ UNCHANGED <<cards, nextId, clock, events>>

\* The database executes UPDATE users SET points = points + ?; the handler
\* answers 200.
ReviewAward(p) ==
    /\ pc[p] = "awarding"
    /\ points' = [points EXCEPT ![loc[p].user] = @ + loc[p].pointsEarned]
    /\ res' = [Respond(200, "Review recorded") EXCEPT
                  !.nextReview = loc[p].nextReview,
                  !.difficultyLevel = loc[p].difficultyLevel,
                  !.keys = {"message", "nextReview", "difficultyLevel"}]
    /\ pc' = [pc EXCEPT ![p] = "idle"]
    /\ loc' = [loc EXCEPT ![p] = NoLoc]
    /\ UNCHANGED <<cards, nextId, clock, events>>

\* router.delete('/:id')
DeleteFlashcard(p, u, id) ==
    /\ pc[p] = "idle"
    /\ IF id \in DOMAIN cards /\ cards[id].user_id = u
       THEN /\ events < MaxEvents
            /\ events' = events + 1
            /\ cards' = [i \in DOMAIN cards \ {id} |-> cards[i]]
       ELSE UNCHANGED <<cards, events>>
    /\ res' = Respond(200, "Flashcard deleted")
    /\ UNCHANGED <<points, nextId, clock, pc, loc>>

\* ------------------------------------------------------------------- time
\* A day passes.  A statement that was sent is executed within QueryTimeout,
\* so none is in flight across the day.
DayPasses ==
    /\ \A p \in Procs : pc[p] # "updating"
    /\ events < MaxEvents
    /\ events' = events + 1
    /\ clock' = clock + DaySeconds
    /\ res' = NoRes
    /\ UNCHANGED <<cards, points, nextId, pc, loc>>

Idle == \A p \in Procs : pc[p] = "idle"

\* The steps of the server; overlap says whether a review may start while
\* another handler is in progress.
Step(overlap) ==
    \/ \E p \in Procs, u \in Users, f \in BOOLEAN, b \in BOOLEAN : CreateFlashcard(p, u, f, b)
    \/ \E p \in Procs, u \in Users, id \in CardIds : ReviewNotFound(p, u, id)
    \/ \E p \in Procs, u \in Users, id \in CardIds, g \in Grades :
          (overlap \/ Idle) /\ ReviewSelect(p, u, id, g)
    \/ \E p \in Procs, latency \in {0, QueryTimeout} : ReviewUpdate(p, latency)
    \/ \E p \in Procs : ReviewAward(p)
    \/ \E p \in Procs, u \in Users, id \in CardIds : DeleteFlashcard(p, u, id)
    \/ DayPasses

\* Requests are handled concurrently.
Next == Step(TRUE) /\ UNCHANGED <<qvars, cvars, startup>>

Spec == Init /\ [][Next]_vars

\* Reviews are handled one at a time.
SeqNext == Step(FALSE) /\ UNCHANGED <<qvars, cvars, startup>>

SpecSeq == Init /\ [][SeqNext]_vars

\* ------------------------------------------------------------ quiz: state
\* ids the AUTO_INCREMENT counter of quizzes hands out
QuizIds == {1, 2}

sParis == <<"P", "a", "r", "i", "s">>
s42 == <<"4", "2">>
sTrue == <<"t", "r", "u", "e">>
sFalse == <<"f", "a", "l", "s", "e">>
sOn == <<"O", "(", "n", ")">>
sLyon == <<"L", "y", "o", "n">>

\* A question as POST /generate stores it: correctAnswer and points || 1 of
\* what the language model returned.
QuestionPool == {<<sParis, 2>>, <<sFalse, 1>>}

\* The questions of the quizzes the database may hold when the server
\* starts: none (POST / creates a quiz without questions), up to
\* MaxQuestions questions of the pool, or four questions of one point each.
QuizBank ==
    UNION {[1..n -> QuestionPool] : n \in 0..MaxQuestions}
    \cup {<<<<sParis, 1>>, <<s42, 1>>, <<sTrue, 1>>, <<sOn, 1>>>>}

\* The rows of quiz_questions POST /generate inserts for quiz 1 from the
\* list l: ids in the order of insertion, order_index = i + 1.
GeneratedQuestions(l) ==
    {[id |-> i, quiz_id |-> 1, correct_answer |-> l[i][1], points |-> l[i][2],
      order_index |-> i] : i \in 1..Len(l)}

\* SELECT id, correct_answer, points FROM quiz_questions WHERE quiz_id = ?
\* ORDER BY order_index ASC
SelectQuestions(quizId) ==
    LET rows == {q \in quiz_questions : q.quiz_id = quizId}
    IN [i \in 1..Cardinality(rows) |->
           CHOOSE q \in rows :
               Cardinality({r \in rows : r.order_index < q.order_index}) = i - 1]

\* The values a client puts at a position of answers.
AnswerValues ==
    {Str(<<" ", "p", "a", "r", "i", "s">>), Str(<<>>), Bool(FALSE)}

\* req.body.answers: nothing, a list of up to MaxQuestions values, or one of
\* two lists of four answers.
Answers ==
    {NoArray}
    \cup {Array(a) : a \in UNION {[1..n -> AnswerValues] : n \in 0..MaxQuestions}}
    \cup {Array(<<Str(<<" ", "p", "a", "r", "i", "s">>), Str(s42),
                  Str(<<"T", "r", "u", "e">>), Str(<<"o", "(", "n", ")">>)>>),
          Array(<<Str(sLyon), Str(s42), Str(sFalse), Str(<<>>)>>)}

\* req.body.timeTakenSeconds: nothing, or 61 seconds
Times == {Undefined, Number(61)}

\* No flashcard, no request of the flashcard routes.
NoFlashcards ==
    /\ cards = [i \in {} |-> 0]
    /\ nextId = 1
    /\ clock = 0
    /\ pc = [p \in Procs |-> "idle"]
    /\ loc = [p \in Procs |-> NoLoc]
    /\ res = NoRes

\* The server starts on a database without quizzes, or with quiz 1 and the
\* questions it was generated with, and without attempts.
QuizInit ==
    /\ NoFlashcards
    /\ points = [u \in Users |-> 0]
    /\ events = 0
    /\ \/ quizzes = {} /\ quiz_questions = {}
       \/ \E l \in QuizBank : quizzes = {1} /\ quiz_questions = GeneratedQuestions(l)
    /\ quiz_attempts = <<>>
    /\ study_sessions = <<>>
    /\ qpc = [p \in Procs |-> "idle"]
    /\ qloc = [p \in Procs |-> NoQLoc]
    /\ qres = NoQRes
    /\ NoCourses
    /\ NoParse
    /\ NoSetup

\* --------------------------------------------------------- quiz: handlers
\* The steps of the flashcard routes leave these alone.
QuizUnchanged == UNCHANGED <<cards, nextId, clock, pc, loc, res, enrollments, cpc>>

\* The quiz AUTO_INCREMENT hands out next (no quiz is deleted here).
NextQuizId == Cardinality(quizzes) + 1

\* router.post('/'): create a quiz; it has no questions.
CreateQuiz(p, hasTitle) ==
    /\ qpc[p] = "idle"
    /\ IF ~hasTitle
       THEN /\ qres' = [NoQRes EXCEPT !.status = 400, !.error = "Quiz title is required"]
            /\ UNCHANGED <<quizzes, events>>
       ELSE /\ NextQuizId \in QuizIds
            /\ events < MaxSubmits
            /\ events' = events + 1
            /\ quizzes' = quizzes \cup {NextQuizId}
            /\ qres' = [NoQRes EXCEPT !.status = 201]
    /\ UNCHANGED <<points, quiz_questions, quiz_attempts, study_sessions, qpc, qloc>>
    /\ QuizUnchanged

\* router.post('/:id/submit'): SELECT * FROM quizzes WHERE id = ? finds no row.
SubmitNotFound(p, quizId) ==
    /\ qpc[p] = "idle"
    /\ quizId \notin quizzes
    /\ qres' = [NoQRes EXCEPT !.status = 404, !.error = "Quiz not found"]
    /\ UNCHANGED <<points, events, quizzes, quiz_questions, quiz_attempts,
                   study_sessions, qpc, qloc>>
    /\ QuizUnchanged

\* router.post('/:id/submit'): the SELECT finds the quiz; the handler sends
\* the SELECT of its questions.
SubmitSelectQuiz(p, u, quizId, answers, timeTakenSeconds) ==
    /\ qpc[p] = "idle"
    /\ quizId \in quizzes
    /\ events < MaxSubmits
    /\ events' = events + 1
    /\ qloc' = [qloc EXCEPT ![p] =
                   [NoQLoc EXCEPT !.user = u, !.quizId = quizId, !.answers = answers,
                                  !.timeTakenSeconds = timeTakenSeconds]]
    /\ qpc' = [qpc EXCEPT ![p] = "questions"]
    /\ qres' = NoQRes
    /\ UNCHANGED <<points, quizzes, quiz_questions, quiz_attempts, study_sessions>>
    /\ QuizUnchanged

\* Variant: a quiz without questions is answered 400.
SubmitGrade_RejectsEmpty(p) ==
    /\ qpc[p] = "questions"
    /\ LET questions == SelectQuestions(qloc[p].quizId)
           g == GradeFrom(questions, qloc[p].answers, 0, NoGrade)
       IN IF g.threw \/ questions = <<>>
          THEN /\ qres' = [NoQRes EXCEPT !.status = IF g.threw THEN 500 ELSE 400,
                                         !.error = "Server error"]
               /\ qpc' = [qpc EXCEPT ![p] = "idle"]
               /\ qloc' = [qloc EXCEPT ![p] = NoQLoc]
          ELSE /\ qloc' = [qloc EXCEPT ![p].totalQuestions = Len(questions),
                                       ![p].grade = g,
                                       ![p].score = Score(g.earnedPoints, g.totalPoints)]
               /\ qpc' = [qpc EXCEPT ![p] = "attempt"]
               /\ qres' = NoQRes
    /\ UNCHANGED <<points, events, quizzes, quiz_questions, quiz_attempts, study_sessions>>
    /\ QuizUnchanged

\* The questions arrive; the handler grades the answers against them.  A
\* TypeError ends the request in the catch block; otherwise the handler
\* computes the score and sends the INSERT of the attempt.
SubmitGrade(p) ==
    /\ qpc[p] = "questions"
    /\ LET questions == SelectQuestions(qloc[p].quizId)
           g == GradeFrom(questions, qloc[p].answers, 0, NoGrade)
       IN IF g.threw
          THEN /\ qres' = [NoQRes EXCEPT !.status = 500, !.error = "Server error"]
               /\ qpc' = [qpc EXCEPT ![p] = "idle"]
               /\ qloc' = [qloc EXCEPT ![p] = NoQLoc]
          ELSE /\ qloc' = [qloc EXCEPT ![p].totalQuestions = Len(questions),
                                       ![p].grade = g,
                                       ![p].score = Score(g.earnedPoints, g.totalPoints)]
               /\ qpc' = [qpc EXCEPT ![p] = "attempt"]
               /\ qres' = NoQRes
    /\ UNCHANGED <<points, events, quizzes, quiz_questions, quiz_attempts, study_sessions>>
    /\ QuizUnchanged

\* Variant: the INSERT replaces the earlier attempt of the user on the quiz.
SubmitSaveAttempt_Replaces(p) ==
    /\ qpc[p] = "attempt"
    /\ LET row == [user_id |-> qloc[p].user, quiz_id |-> qloc[p].quizId,
                   score |-> ToFixed2(qloc[p].score),
                   total_questions |-> qloc[p].totalQuestions,
                   correct_answers |-> qloc[p].grade.correctAnswers,
                   time_taken_seconds |-> IF Truthy(qloc[p].timeTakenSeconds)
                                          THEN qloc[p].timeTakenSeconds.n ELSE 0]
           old == {i \in 1..Len(quiz_attempts) :
                      /\ quiz_attempts[i].user_id = row.user_id
                      /\ quiz_attempts[i].quiz_id = row.quiz_id}
       IN quiz_attempts' =
              IF old = {} THEN Append(quiz_attempts, row)
              ELSE [quiz_attempts EXCEPT ![CHOOSE i \in old : TRUE] = row]
    /\ qloc' = [qloc EXCEPT ![p].pointsEarned = QuizPointsEarned(qloc[p].score)]
    /\ qpc' = [qpc EXCEPT ![p] = "points"]
    /\ qres' = NoQRes
    /\ UNCHANGED <<points, events, quizzes, quiz_questions, study_sessions>>
    /\ QuizUnchanged

\* The database executes INSERT INTO quiz_attempts; the handler computes the
\* reward and sends the UPDATE of the user.
SubmitSaveAttempt(p) ==
    /\ qpc[p] = "attempt"
    /\ quiz_attempts' = Append(quiz_attempts,
           [user_id |-> qloc[p].user, quiz_id |-> qloc[p].quizId,
            score |-> ToFixed2(qloc[p].score),
            total_questions |-> qloc[p].totalQuestions,
            correct_answers |-> qloc[p].grade.correctAnswers,
            time_taken_seconds |-> IF Truthy(qloc[p].timeTakenSeconds)
                                   THEN qloc[p].timeTakenSeconds.n ELSE 0])
    /\ qloc' = [qloc EXCEPT ![p].pointsEarned = QuizPointsEarned(qloc[p].score)]
    /\ qpc' = [qpc EXCEPT ![p] = "points"]
    /\ qres' = NoQRes
    /\ UNCHANGED <<points, events, quizzes, quiz_questions, study_sessions>>
    /\ QuizUnchanged

\* The database executes UPDATE users SET points = points + ?; the handler
\* sends the INSERT of the study session.
SubmitAward(p) ==
    /\ qpc[p] = "points"
    /\ points' = [points EXCEPT ![qloc[p].user] = @ + qloc[p].pointsEarned]
    /\ qpc' = [qpc EXCEPT ![p] = "session"]
    /\ qres' = NoQRes
    /\ UNCHANGED <<events, quizzes, quiz_questions, quiz_attempts, study_sessions, qloc>>
    /\ QuizUnchanged

\* The database executes INSERT INTO study_sessions; the handler answers
\* with the result of the grading.
SubmitSession(p) ==
    /\ qpc[p] = "session"
    /\ study_sessions' = Append(study_sessions,
           [user_id |-> qloc[p].user, session_type |-> "quiz",
            duration_minutes |-> DurationMinutes(qloc[p].timeTakenSeconds),
            points_earned |-> qloc[p].pointsEarned])
    /\ qres' = [NoQRes EXCEPT !.status = 200,
                              !.score = ToFixed2(qloc[p].score),
                              !.correctAnswers = qloc[p].grade.correctAnswers,
                              !.totalQuestions = qloc[p].totalQuestions,
                              !.earnedPoints = qloc[p].grade.earnedPoints,
                              !.totalPoints = qloc[p].grade.totalPoints,
                              !.results = qloc[p].grade.results]
    /\ qpc' = [qpc EXCEPT ![p] = "idle"]
    /\ qloc' = [qloc EXCEPT ![p] = NoQLoc]
    /\ UNCHANGED <<points, events, quizzes, quiz_questions, quiz_attempts>>
    /\ QuizUnchanged

QuizIdle == \A p \in Procs : qpc[p] = "idle"

\* The steps of the quiz routes; overlap says whether a request may start
\* while another handler is in progress.
QuizStep(overlap) ==
    \/ \E p \in Procs, t \in BOOLEAN : (overlap \/ QuizIdle) /\ CreateQuiz(p, t)
    \/ \E p \in Procs, quizId \in QuizIds : (overlap \/ QuizIdle) /\ SubmitNotFound(p, quizId)
    \/ \E p \in Procs, u \in Users, quizId \in QuizIds, a \in Answers, t \in Times :
          (overlap \/ QuizIdle) /\ SubmitSelectQuiz(p, u, quizId, a, t)
    \/ \E p \in Procs : SubmitGrade(p)
    \/ \E p \in Procs : SubmitSaveAttempt(p)
    \/ \E p \in Procs : SubmitAward(p)
    \/ \E p \in Procs : SubmitSession(p)

\* Quiz requests are handled concurrently.
QuizNext == QuizStep(TRUE) /\ UNCHANGED <<earned, startup>>

QuizSpec == QuizInit /\ [][QuizNext]_vars

\* Quiz requests are handled one at a time.
QuizSeqNext == QuizStep(FALSE) /\ UNCHANGED <<earned, startup>>

QuizSeqSpec == QuizInit /\ [][QuizSeqNext]_vars

\* ------------------------------------------- course and assistant routes
\* parseInt(req.params.id) of the course routes
Courses == {1}
\* req.body.progress_percentage
Percentages == {50, 100}

\* UPDATE users SET points = points + 10: the reward of an enrollment
EnrollPoints == 10
\* UPDATE users SET points = points + 50: the reward of a completed course
CompletionPoints == 50
\* UPDATE users SET points = points + 1: the reward of a message to the assistant
MessagePoints == 1

\* The steps of the course and assistant routes leave these alone.
CourseUnchanged == UNCHANGED <<cards, nextId, clock, pc, loc, res, qvars>>

\* SELECT * FROM enrollments WHERE user_id = ? AND course_id = ? returns a row.
Enrolled(u, c) == \E e \in enrollments : e.user_id = u /\ e.course_id = c

\* router.post('/:id/enroll'): with an enrollment the handler answers 400;
\* without, it sends the INSERT.
EnrollSelect(p, u, c) ==
    /\ cpc[p].at = "idle"
    /\ IF Enrolled(u, c)
       THEN UNCHANGED <<cpc, events>>
       ELSE /\ events < MaxEvents
            /\ events' = events + 1
            /\ cpc' = [cpc EXCEPT ![p] =
                          [NoCLoc EXCEPT !.at = "enrolling", !.user = u, !.course = c]]
    /\ UNCHANGED <<points, enrollments>>
    /\ CourseUnchanged

\* The database executes INSERT INTO enrollments; UNIQUE KEY unique_enrollment
\* rejects a second row of the user and course, and the handler answers 500.
EnrollInsert(p) ==
    /\ cpc[p].at = "enrolling"
    /\ IF Enrolled(cpc[p].user, cpc[p].course)
       THEN /\ cpc' = [cpc EXCEPT ![p] = NoCLoc]
            /\ UNCHANGED enrollments
       ELSE /\ enrollments' = enrollments \cup
                  {[user_id |-> cpc[p].user, course_id |-> cpc[p].course,
                    progress_percentage |-> 0, completed |-> FALSE]}
            /\ cpc' = [cpc EXCEPT ![p].at = "enrolled"]
    /\ UNCHANGED <<points, events>>
    /\ CourseUnchanged

\* The database executes UPDATE users SET points = points + 10; the handler
\* answers 200.
EnrollAward(p) ==
    /\ cpc[p].at = "enrolled"
    /\ points' = [points EXCEPT ![cpc[p].user] = @ + EnrollPoints]
    /\ cpc' = [cpc EXCEPT ![p] = NoCLoc]
    /\ UNCHANGED <<enrollments, events>>
    /\ CourseUnchanged

\* router.put('/:id/progress'): the database executes UPDATE enrollments SET
\* progress_percentage = ?; below 100 the handler answers 200.
ProgressUpdate(p, u, c, progress_percentage) ==
    /\ cpc[p].at = "idle"
    /\ events < MaxEvents
    /\ events' = events + 1
    /\ enrollments' =
           {IF e.user_id = u /\ e.course_id = c
            THEN [e EXCEPT !.progress_percentage = progress_percentage]
            ELSE e : e \in enrollments}
    /\ cpc' = [cpc EXCEPT ![p] =
                  IF progress_percentage >= 100
                  THEN [NoCLoc EXCEPT !.at = "completing", !.user = u, !.course = c,
                                      !.progress_percentage = progress_percentage]
                  ELSE NoCLoc]
    /\ UNCHANGED points
    /\ CourseUnchanged

\* The database executes UPDATE enrollments SET completed_at = CURRENT_TIMESTAMP.
ProgressComplete(p) ==
    /\ cpc[p].at = "completing"
    /\ enrollments' =
           {IF e.user_id = cpc[p].user /\ e.course_id = cpc[p].course
            THEN [e EXCEPT !.completed = TRUE]
            ELSE e : e \in enrollments}
    /\ cpc' = [cpc EXCEPT ![p].at = "completed"]
    /\ UNCHANGED <<points, events>>
    /\ CourseUnchanged

\* The database executes UPDATE users SET points = points + 50; the handler
\* answers 200.
ProgressAward(p) ==
    /\ cpc[p].at = "completed"
    /\ points' = [points EXCEPT ![cpc[p].user] = @ + CompletionPoints]
    /\ cpc' = [cpc EXCEPT ![p] = NoCLoc]
    /\ UNCHANGED <<enrollments, events>>
    /\ CourseUnchanged

\* router.post('/conversations/:id/messages'): without content the handler
\* answers 400; with content, in a conversation of the user, it stores the
\* message and asks the assistant.
MessageSend(p, u, hasContent) ==
    /\ cpc[p].at = "idle"
    /\ IF ~hasContent
       THEN UNCHANGED <<cpc, events>>
       ELSE /\ events < MaxEvents
            /\ events' = events + 1
            /\ cpc' = [cpc EXCEPT ![p] = [NoCLoc EXCEPT !.at = "asking", !.user = u]]
    /\ UNCHANGED <<points, enrollments>>
    /\ CourseUnchanged

\* getStudyAssistantResponse returns and the reply is stored, or it throws
\* and the handler answers 500.
MessageReply(p, replied) ==
    /\ cpc[p].at = "asking"
    /\ cpc' = [cpc EXCEPT ![p] = IF replied THEN [@ EXCEPT !.at = "replied"] ELSE NoCLoc]
    /\ UNCHANGED <<points, enrollments, events>>
    /\ CourseUnchanged

\* The database executes UPDATE users SET points = points + 1; the handler
\* answers 200.
MessageAward(p) ==
    /\ cpc[p].at = "replied"
    /\ points' = [points EXCEPT ![cpc[p].user] = @ + MessagePoints]
    /\ cpc' = [cpc EXCEPT ![p] = NoCLoc]
    /\ UNCHANGED <<enrollments, events>>
    /\ CourseUnchanged

\* ----------------------------------------------------- the routes together
\* The grades and the answers of the requests explored when all routes run
\* together.
ServerGrades == {Num(1), Num(3), [t |-> "undefined", n |-> 0]}
ServerAnswers ==
    {NoArray, Array(<<>>), Array(<<Str(sParis), Str(sFalse)>>)}

\* The reward of the request that handler p answers with success in this
\* step, if it is a request of user u; 0 otherwise.
ReviewReward(p, u) ==
    IF pc[p] = "awarding" /\ pc'[p] = "idle" /\ loc[p].user = u
    THEN PointsEarned(loc[p].grade) ELSE 0

QuizReward(p, u) ==
    IF qpc[p] = "session" /\ qpc'[p] = "idle" /\ qloc[p].user = u
    THEN QuizPointsEarned(qloc[p].score) ELSE 0

CourseReward(p, u) ==
    IF cpc[p].user = u /\ cpc'[p].at = "idle"
    THEN CASE cpc[p].at = "enrolled" -> EnrollPoints
           [] cpc[p].at = "completed" -> CompletionPoints
           [] cpc[p].at = "replied" -> MessagePoints
           [] OTHER -> 0
    ELSE 0

RECURSIVE SumOver(_, _)
SumOver(f, S) ==
    IF S = {} THEN 0
    ELSE LET x == CHOOSE y \in S : TRUE IN f[x] + SumOver(f, S \ {x})

\* The server starts on a database that holds a flashcard of user 1
\* reviewed once, quiz 1 with two questions, and the attempt and the study
\* session of an earlier submission of user 1 (the answer ' paris': 2 of 3
\* points, score 66.67, 6 reward points).
ServerQuestions == <<<<sParis, 2>>, <<sFalse, 1>>>>
ServerPoints == [u \in Users |-> IF u = 1 THEN ReviewedPoints(1, 0) + 6 ELSE 0]

ServerInit ==
    /\ cards = [i \in {1} |-> ReviewedCard(1, 0)]
    /\ points = ServerPoints
    /\ nextId = 2
    /\ clock = 0
    /\ pc = [p \in Procs |-> "idle"]
    /\ loc = [p \in Procs |-> NoLoc]
    /\ res = NoRes
    /\ events = 0
    /\ quizzes = {1}
    /\ quiz_questions = GeneratedQuestions(ServerQuestions)
    /\ quiz_attempts = <<[user_id |-> 1, quiz_id |-> 1, score |-> 6667,
                          total_questions |-> 2, correct_answers |-> 1,
                          time_taken_seconds |-> 0]>>
    /\ study_sessions = <<[user_id |-> 1, session_type |-> "quiz",
                           duration_minutes |-> 0, points_earned |-> 6]>>
    /\ qpc = [p \in Procs |-> "idle"]
    /\ qloc = [p \in Procs |-> NoQLoc]
    /\ qres = NoQRes
    /\ NoCourses
    /\ NoParse
    /\ NoSetup

\* Reviews, quiz submissions, enrollments, progress updates and messages to
\* the assistant, handled concurrently.
ServerStep ==
    \/ /\ \/ \E p \in Procs, u \in Users, id \in CardIds, g \in ServerGrades :
                ReviewSelect(p, u, id, g)
          \/ \E p \in Procs : ReviewUpdate(p, 0)
          \/ \E p \in Procs : ReviewAward(p)
       /\ UNCHANGED <<qvars, enrollments, cpc>>
    \/ \E p \in Procs, quizId \in QuizIds : SubmitNotFound(p, quizId)
    \/ \E p \in Procs, u \in Users, a \in ServerAnswers, t \in Times :
          SubmitSelectQuiz(p, u, 1, a, t)
    \/ \E p \in Procs : SubmitGrade(p)
    \/ \E p \in Procs : SubmitSaveAttempt(p)
    \/ \E p \in Procs : SubmitAward(p)
    \/ \E p \in Procs : SubmitSession(p)
    \/ \E p \in Procs, u \in Users, c \in Courses : EnrollSelect(p, u, c)
    \/ \E p \in Procs : EnrollInsert(p)
    \/ \E p \in Procs : EnrollAward(p)
    \/ \E p \in Procs, u \in Users, c \in Courses, x \in Percentages :
          ProgressUpdate(p, u, c, x)
    \/ \E p \in Procs : ProgressComplete(p)
    \/ \E p \in Procs : ProgressAward(p)
    \/ \E p \in Procs, u \in Users, b \in BOOLEAN : MessageSend(p, u, b)
    \/ \E p \in Procs, b \in BOOLEAN : MessageReply(p, b)
    \/ \E p \in Procs : MessageAward(p)

ServerNext ==
    /\ ServerStep
    /\ UNCHANGED startup
    /\ earned' = [u \in Users |->
                     earned[u] + SumOver([p \in Procs |-> ReviewReward(p, u)
                                             + QuizReward(p, u) + CourseReward(p, u)], Procs)]

ServerSpec == ServerInit /\ [][ServerNext]_vars

\* ------------------------------------------------------ parseSQLStatements
\* The characters of the texts explored: the dollar sign, the semicolon, the
\* hyphen, the newline and a letter.
SqlChars == {"$", ";", "-", "\n", "a"}

\* A comment line, then a function whose body, between $$ and $$, holds two
\* semicolons, then another statement: the shape of lines 18 to 28 of
\* schema-postgresql.sql.
FunctionText ==
    <<"-", "-", "a", "\n", "a", "$", "$", "\n", "a", ";", "a", ";", "\n",
      "$", "$", "a", ";", "\n", "a", ";">>

\* The same with the delimiter $a$, and a dollar sign and an empty $$ $$ in
\* the body.
TaggedText ==
    <<"a", "$", "a", "$", ";", "$", "$", "$", ";", "$", "a", "$", ";", "-", "-", ";", "\n">>

\* The texts parseSQLStatements is called with.
Texts ==
    UNION {[1..n -> SqlChars] : n \in 0..MaxSqlLen} \cup {FunctionText, TaggedText}

\* sql[k] (k counts from 0): undefined, here the empty string, past the end
CharAt(s, k) == IF k >= 0 /\ k < Len(s) THEN s[k + 1] ELSE ""

\* sql.indexOf(c, from): -1 when c does not occur at or after from
IndexOf(s, c, from) ==
    LET found == {k \in from..(Len(s) - 1) : s[k + 1] = c}
    IN IF found = {} THEN 0 - 1 ELSE CHOOSE k \in found : \A m \in found : k <= m

\* sql.substring(a, b) for 0 <= a <= b <= sql.length
Substring(s, a, b) == SubSeq(s, a + 1, b)

\* sql.substring(k).startsWith(t)
StartsWithAt(s, k, t) == k + Len(t) <= Len(s) /\ SubSeq(s, k + 1, k + Len(t)) = t

\* The parser is at a character.
Scanning == ~parsed /\ sqlIndex < Len(sql)

\* char === '$' && !inDollarQuote, and a later '$' exists: everything from
\* this '$' to the next is taken as the delimiter.
OpensDollarQuote ==
    /\ CharAt(sql, sqlIndex) = "$" /\ ~inDollarQuote
    /\ IndexOf(sql, "$", sqlIndex + 1) > sqlIndex

OpenDollarQuote ==
    /\ Scanning
    /\ OpensDollarQuote
    /\ LET tagEnd == IndexOf(sql, "$", sqlIndex + 1)
       IN /\ dollarTag' = Substring(sql, sqlIndex, tagEnd + 1)
          /\ inDollarQuote' = TRUE
          /\ currentStatement' = currentStatement \o dollarTag'
          /\ sqlIndex' = tagEnd + 1
    /\ UNCHANGED <<sql, statements, parsed>>

\* inDollarQuote && sql.substring(i).startsWith(dollarTag)
CloseDollarQuote ==
    /\ Scanning
    /\ inDollarQuote /\ StartsWithAt(sql, sqlIndex, dollarTag)
    /\ currentStatement' = currentStatement \o dollarTag
    /\ sqlIndex' = sqlIndex + Len(dollarTag)
    /\ inDollarQuote' = FALSE
    /\ dollarTag' = <<>>
    /\ UNCHANGED <<sql, statements, parsed>>

\* Inside a dollar quote the character is added.
QuotedChar ==
    /\ Scanning
    /\ inDollarQuote /\ ~StartsWithAt(sql, sqlIndex, dollarTag)
    /\ currentStatement' = Append(currentStatement, CharAt(sql, sqlIndex))
    /\ sqlIndex' = sqlIndex + 1
    /\ UNCHANGED <<sql, statements, inDollarQuote, dollarTag, parsed>>

\* char === '-' && nextChar === '-': the line is skipped with its newline.
SkipComment ==
    /\ Scanning
    /\ ~inDollarQuote
    /\ CharAt(sql, sqlIndex) = "-" /\ CharAt(sql, sqlIndex + 1) = "-"
    /\ LET newline == IndexOf(sql, "\n", sqlIndex)
       IN sqlIndex' = IF newline < 0 THEN Len(sql) ELSE newline + 1
    /\ UNCHANGED <<sql, statements, currentStatement, inDollarQuote, dollarTag, parsed>>

\* char === ';' && !inDollarQuote: the statement ends; it is kept unless it
\* is empty or the semicolon alone.
EndStatement ==
    /\ Scanning
    /\ ~inDollarQuote
    /\ CharAt(sql, sqlIndex) = ";"
    /\ LET trimmed == Trim(Append(currentStatement, ";"))
       IN statements' = IF trimmed # <<>> /\ trimmed # <<";">>
                        THEN Append(statements, trimmed) ELSE statements
    /\ currentStatement' = <<>>
    /\ sqlIndex' = sqlIndex + 1
    /\ UNCHANGED <<sql, inDollarQuote, dollarTag, parsed>>

\* Any other character is added to the statement.
PlainChar ==
    /\ Scanning
    /\ ~inDollarQuote
    /\ ~OpensDollarQuote
    /\ ~(CharAt(sql, sqlIndex) = "-" /\ CharAt(sql, sqlIndex + 1) = "-")
    /\ CharAt(sql, sqlIndex) # ";"
    /\ currentStatement' = Append(currentStatement, CharAt(sql, sqlIndex))
    /\ sqlIndex' = sqlIndex + 1
    /\ UNCHANGED <<sql, statements, inDollarQuote, dollarTag, parsed>>

\* After the loop: what is left is a statement unless it is empty.
ParseFinish ==
    /\ ~parsed /\ sqlIndex >= Len(sql)
    /\ LET trimmed == Trim(currentStatement)
       IN statements' = IF trimmed # <<>> THEN Append(statements, trimmed) ELSE statements
    /\ parsed' = TRUE
    /\ UNCHANGED <<sql, currentStatement, inDollarQuote, dollarTag, sqlIndex>>

\* No request is handled.
NoRequests ==
    /\ NoFlashcards
    /\ points = [u \in Users |-> 0]
    /\ events = 0
    /\ NoQuizzes
    /\ NoCourses

\* parseSQLStatements(sql) is called with a text.
ParseInit ==
    /\ sql \in Texts
    /\ statements = <<>>
    /\ currentStatement = <<>>
    /\ inDollarQuote = FALSE
    /\ dollarTag = <<>>
    /\ sqlIndex = 0
    /\ parsed = FALSE
    /\ NoRequests
    /\ NoSetup

ParseNext ==
    /\ \/ OpenDollarQuote
       \/ CloseDollarQuote
       \/ QuotedChar
       \/ SkipComment
       \/ EndStatement
       \/ PlainChar
       \/ ParseFinish
    /\ UNCHANGED <<cards, points, nextId, clock, pc, loc, res, events, qvars, cvars, dvars>>

ParseSpec == ParseInit /\ [][ParseNext]_vars

\* ------------------------------------------------------- initializeDatabase
\* src/database/init.js, lines 101 to 328, run against a PostgreSQL database
\* through the pool of the pg driver.

\* The statements parseSQLStatements returns for schema-postgresql.sql, one of
\* each kind per table: what the statement creates, how, and the objects it
\* refers to.
Schema ==
    << [kind |-> "table",    name |-> "users",                     needs |-> {}],
       [kind |-> "function", name |-> "update_updated_at_column",  needs |-> {}],
       [kind |-> "trigger",  name |-> "update_users_updated_at",
        needs |-> {"users", "update_updated_at_column"}],
       [kind |-> "table",    name |-> "courses",                   needs |-> {"users"}],
       [kind |-> "index",    name |-> "idx_courses_category",      needs |-> {"courses"}],
       [kind |-> "trigger",  name |-> "update_courses_updated_at",
        needs |-> {"courses", "update_updated_at_column"}],
       [kind |-> "table",    name |-> "enrollments",               needs |-> {"users", "courses"}],
       [kind |-> "index",    name |-> "idx_enrollments_user",      needs |-> {"enrollments"}] >>

SchemaNames == {Schema[k].name : k \in 1..Len(Schema)}

criticalTables == {"users", "courses", "enrollments"}

requiredColumns == {"school", "state", "country", "bio", "phone", "date_of_birth", "website"}

\* What PostgreSQL answers to one statement of the schema:
\*   CREATE TABLE / INDEX IF NOT EXISTS   creates the object unless it exists;
\*   CREATE OR REPLACE FUNCTION           creates or replaces it;
\*   CREATE TRIGGER                       fails with 42710 "already exists"
\*                                        when the trigger exists;
\* and any of them fails when an object it refers to does not exist.
Answer(st, objects) ==
    IF ~(st.needs \subseteq objects) THEN "does not exist"
    ELSE IF st.kind = "trigger" /\ st.name \in objects THEN "already exists"
    ELSE "ok"

\* Variant: a failure that says "already exists" is an error like any other.
IsSkipped_Never(message) == FALSE

\* catch of the loop, lines 202-208: the failures that are skipped.
IsSkipped(message) == message = "already exists" \/ message = "duplicate"

\* The object a pg query resolves to: a Result with the rows in .rows.
PgResult(rows) == [t |-> "result", items |-> <<rows>>]

\* const [x] = v throws a TypeError unless v is iterable.
Iterable(v) == v.t = "array"

SetupUnchanged ==
    UNCHANGED <<cards, points, nextId, clock, pc, loc, res, events, qvars, cvars, pvars>>

\* Lines 101-122. AUTO_SETUP_DB === 'false' returns true at once.
SetupStart(autoSetup) ==
    /\ ipc = "idle"
    /\ runs < MaxRuns
    /\ runs' = runs + 1
    /\ faults' = 0
    /\ atStart' = [objects |-> schema_objects,
                   columns |-> users_columns,
                   enabled |-> autoSetup,
                   initialized |-> \/ atStart.initialized
                                   \/ atStart.enabled /\ returned = "true"]
    /\ stmtIndex' = 0
    /\ successCount' = 0
    /\ skipCount' = 0
    /\ errorCount' = 0
    /\ hasMissingTables' = "undefined"
    /\ IF autoSetup
         THEN ipc' = "connect" /\ returned' = "none"
         ELSE ipc' = "idle" /\ returned' = "true"
    /\ UNCHANGED <<schema_objects, users_columns>>
    /\ SetupUnchanged

\* Lines 124-140 and 318-327: SELECT 1; a failure is rethrown to the outer
\* catch, which returns false.
SetupConnect(connected) ==
    /\ ipc = "connect"
    /\ connected \/ faults < MaxFaults
    /\ IF connected
         THEN /\ ipc' = "statements"
              /\ UNCHANGED <<returned, faults>>
         ELSE /\ ipc' = "idle"
              /\ returned' = "false"
              /\ faults' = faults + 1
    /\ UNCHANGED <<schema_objects, users_columns, stmtIndex, successCount, skipCount,
                   errorCount, hasMissingTables, runs, atStart>>
    /\ SetupUnchanged

\* Lines 166-224, one turn of the loop. No statement of the schema is empty or
\* a comment, so lines 171-189 pass it on. failed: the statement fails for a
\* reason outside the schema (a lost connection, a missing privilege).
SetupStatement(failed) ==
    /\ ipc = "statements"
    /\ stmtIndex < Len(Schema)
    /\ failed => faults < MaxFaults
    /\ LET st == Schema[stmtIndex + 1]
           message == IF failed THEN "other" ELSE Answer(st, schema_objects)
       IN  /\ schema_objects' = IF message = "ok" THEN schema_objects \cup {st.name}
                                ELSE schema_objects
           /\ successCount' = IF message = "ok" THEN successCount + 1 ELSE successCount
           /\ skipCount' = IF message # "ok" /\ IsSkipped(message)
                             THEN skipCount + 1 ELSE skipCount
           /\ errorCount' = IF message # "ok" /\ ~IsSkipped(message)
                              THEN errorCount + 1 ELSE errorCount
    /\ faults' = IF failed THEN faults + 1 ELSE faults
    /\ stmtIndex' = stmtIndex + 1
    /\ UNCHANGED <<users_columns, ipc, hasMissingTables, returned, runs, atStart>>
    /\ SetupUnchanged

\* Lines 227-245 and 294-299: the critical tables are looked up.
SetupVerify(answered) ==
    /\ ipc = "statements"
    /\ stmtIndex = Len(Schema)
    /\ answered \/ faults < MaxFaults
    /\ IF ~answered
         THEN /\ hasMissingTables' = "true"
              /\ ipc' = "report"
              /\ faults' = faults + 1
         ELSE LET tableNames == criticalTables \cap schema_objects
                  missingTables == criticalTables \ tableNames
              IN  /\ IF missingTables # {}
                       THEN hasMissingTables' = "true" /\ ipc' = "report"
                       ELSE hasMissingTables' = "undefined" /\ ipc' = "columns"
                  /\ UNCHANGED faults
    /\ UNCHANGED <<schema_objects, users_columns, stmtIndex, successCount, skipCount,
                   errorCount, returned, runs, atStart>>
    /\ SetupUnchanged

\* Lines 247-294: the profile columns of users. The query resolves to a pg
\* Result, which const [columns] destructures.
SetupColumns ==
    /\ ipc = "columns"
    /\ LET result == PgResult(requiredColumns \cap users_columns)
       IN  IF ~Iterable(result)
             THEN UNCHANGED users_columns        \* TypeError, caught at 289-291
             ELSE LET existingColumns == result.items[1]
                      missingColumns == requiredColumns \ existingColumns
                  IN  users_columns' = users_columns \cup missingColumns
    /\ hasMissingTables' = "false"
    /\ ipc' = "report"
    /\ UNCHANGED <<schema_objects, stmtIndex, successCount, skipCount, errorCount,
                   returned, runs, faults, atStart>>
    /\ SetupUnchanged

\* Lines 301-316.
SetupReturn ==
    /\ ipc = "report"
    /\ returned' = IF hasMissingTables = "true" THEN "false"
                   ELSE IF successCount > 0 /\ errorCount = 0 THEN "true"
                   ELSE "false"
    /\ ipc' = "idle"
    /\ UNCHANGED <<schema_objects, users_columns, stmtIndex, successCount, skipCount,
                   errorCount, hasMissingTables, runs, faults, atStart>>
    /\ SetupUnchanged

\* The databases the server may be started against: any part of the schema
\* whose objects have what they refer to, users with no profile column, with
\* some, or with all of them.
Consistent(objects) ==
    \A k \in 1..Len(Schema) : Schema[k].name \in objects => Schema[k].needs \subseteq objects

InitialColumns == {{}, {"school", "state", "country"}, requiredColumns}

SetupInit ==
    /\ NoRequests
    /\ NoParse
    /\ schema_objects \in {o \in SUBSET SchemaNames : Consistent(o)}
    /\ users_columns \in {c \in InitialColumns : c # {} => "users" \in schema_objects}
    /\ ipc = "idle"
    /\ stmtIndex = 0
    /\ successCount = 0
    /\ skipCount = 0
    /\ errorCount = 0
    /\ hasMissingTables = "undefined"
    /\ returned = "none"
    /\ runs = 0
    /\ faults = 0
    /\ atStart = [objects |-> {}, columns |-> {}, enabled |-> FALSE, initialized |-> FALSE]

SetupNext ==
    \/ \E autoSetup \in BOOLEAN : SetupStart(autoSetup)
    \/ \E connected \in BOOLEAN : SetupConnect(connected)
    \/ \E failed \in BOOLEAN : SetupStatement(failed)
    \/ \E answered \in BOOLEAN : SetupVerify(answered)
    \/ SetupColumns
    \/ SetupReturn

SetupSpec == SetupInit /\ [][SetupNext]_vars

\* ----------------------------------------------------------------- claims
\* A handler that has computed the schedule of a review and not yet answered.
Reviewing(p) == pc[p] \in {"updating", "awarding"}

\* The least integer k with k * d >= n (n >= 0, d > 0).
LeastAtLeast(n, d) == CHOOSE k \in 0..n : k * d >= n /\ (k = 0 \/ (k - 1) * d < n)

\* C1: in every state, whatever grades the reviews carried, the stored
\* difficulty of every flashcard is between 1 and 5.
C1_DifficultyInRange ==
    \A id \in DOMAIN cards :
        cards[id].difficulty_level >= 10 /\ cards[id].difficulty_level <= 50

\* A flashcard at difficulty 5 was reviewed with something that is no number
\* and is still stored at 5.
C1_Witness ==
    \E p \in Procs :
        /\ pc[p] = "awarding"
        /\ loc[p].grade.t # "number"
        /\ loc[p].flashcard.difficulty_level = 50
        /\ loc[p].id \in DOMAIN cards
        /\ cards[loc[p].id].difficulty_level = 50

\* C2: a review with grade 1 of a flashcard at difficulty d in [1,5] computes
\* the new difficulty max(1, d - 0.2), which is not greater than d.
C2_EasyLowersDifficulty ==
    \A p \in Procs :
        Reviewing(p) /\ loc[p].grade = Num(1) =>
            LET d == loc[p].flashcard.difficulty_level
            IN /\ d >= 10 /\ d <= 50
               /\ loc[p].difficultyLevel = (IF d - 2 >= 10 THEN d - 2 ELSE 10)
               /\ loc[p].difficultyLevel <= d

\* A grade 1 review of a flashcard at the floor: 1 stays 1.
C2_Witness ==
    \E p \in Procs :
        /\ pc[p] = "updating"
        /\ loc[p].grade = Num(1)
        /\ loc[p].flashcard.difficulty_level = 10
        /\ loc[p].difficultyLevel = 10

\* C3: a review with grade 3 of a flashcard at difficulty d computes the new
\* difficulty min(5, d + 0.3), which is not less than d and not greater than 5.
C3_HardRaisesDifficulty ==
    \A p \in Procs :
        Reviewing(p) /\ loc[p].grade = Num(3) =>
            LET d == loc[p].flashcard.difficulty_level
            IN /\ loc[p].difficultyLevel = (IF d + 3 <= 50 THEN d + 3 ELSE 50)
               /\ loc[p].difficultyLevel >= d
               /\ loc[p].difficultyLevel <= 50

\* A grade 3 review of a flashcard at difficulty 4 computes 4.3.
C3_Witness ==
    \E p \in Procs :
        /\ pc[p] = "updating"
        /\ loc[p].grade = Num(3)
        /\ loc[p].flashcard.difficulty_level = 40
        /\ loc[p].difficultyLevel = 43

\* C4: a review with grade 4, or with any value that is none of the numbers
\* 1, 2, 3, computes the new difficulty min(5, d + 0.5) and the interval 1 day.
C4_AgainAndOtherGrades ==
    \A p \in Procs :
        Reviewing(p) /\ loc[p].grade \notin {Num(1), Num(2), Num(3)} =>
            LET d == loc[p].flashcard.difficulty_level
            IN /\ loc[p].difficultyLevel = (IF d + 5 <= 50 THEN d + 5 ELSE 50)
               /\ loc[p].intervalDays = 1

\* A review whose grade is the string "1" of a flashcard at difficulty 3.
C4_Witness ==
    \E p \in Procs :
        /\ pc[p] = "updating"
        /\ loc[p].grade.t = "string"
        /\ loc[p].flashcard.difficulty_level = 30
        /\ loc[p].difficultyLevel = 35
        /\ loc[p].intervalDays = 1

\* C5: for grades 1, 2 and 3 the interval is ceil(d * 2.5), ceil(d * 1.5) and
\* ceil(d * 0.8) days, d being the difficulty read before this review, and
\* grade 2 leaves the difficulty as it was.
C5_IntervalFromStoredDifficulty ==
    \A p \in Procs :
        Reviewing(p) =>
            LET d == loc[p].flashcard.difficulty_level
                g == loc[p].grade
            IN /\ g = Num(1) => loc[p].intervalDays = LeastAtLeast(d * 25, 100)
               /\ g = Num(2) => /\ loc[p].intervalDays = LeastAtLeast(d * 15, 100)
                                /\ loc[p].difficultyLevel = d
               /\ g = Num(3) => loc[p].intervalDays = LeastAtLeast(d * 8, 100)

\* A grade 1 review at difficulty 3: the interval is ceil(7.5) = 8 days, and
\* the updated difficulty 2.8 would have given ceil(7.0) = 7.
C5_Witness ==
    \E p \in Procs :
        /\ pc[p] = "updating"
        /\ loc[p].grade = Num(1)
        /\ loc[p].flashcard.difficulty_level = 30
        /\ loc[p].difficultyLevel = 28
        /\ loc[p].intervalDays = 8
        /\ LeastAtLeast(loc[p].difficultyLevel * 25, 100) = 7

\* C6: the interval of every review, whatever the grade, is an integer number
\* of days and at least 1.
C6_IntervalPositive ==
    \A p \in Procs :
        Reviewing(p) => loc[p].intervalDays \in Nat /\ loc[p].intervalDays >= 1

\* The smallest product: grade 3 at difficulty 1, ceil(0.8) = 1.
C6_Witness ==
    \E p \in Procs :
        /\ pc[p] = "updating"
        /\ loc[p].grade = Num(3)
        /\ loc[p].flashcard.difficulty_level = 10
        /\ loc[p].intervalDays = 1

C7_Ordered ==
    \A id \in DOMAIN cards :
        cards[id].last_reviewed # NULL /\ cards[id].next_review # NULL =>
            cards[id].next_review >= cards[id].last_reviewed

C7_ReviewSchedules ==
    \A p \in Procs :
        pc[p] = "updating" /\ pc'[p] = "awarding" /\ loc[p].id \in DOMAIN cards =>
            cards'[loc[p].id].next_review = loc[p].now + loc[p].intervalDays * DaySeconds

\* C7: on every flashcard with both timestamps set, next_review is not before
\* last_reviewed; and the UPDATE of a review sets next_review to the time the
\* handler read plus intervalDays days.
C7_NextReviewAfterLastReviewed == []C7_Ordered /\ [][C7_ReviewSchedules]_vars

\* A flashcard reviewed a day after the start, the UPDATE executed
\* QueryTimeout after the handler read the clock, and due one day later.
C7_Witness ==
    \E id \in DOMAIN cards :
        /\ cards[id].last_reviewed = DaySeconds + QueryTimeout
        /\ cards[id].next_review = 2 * DaySeconds

C8_CountStep ==
    \A id \in (DOMAIN cards) \cap (DOMAIN cards') :
        IF \E p \in Procs : pc[p] = "updating" /\ pc'[p] = "awarding" /\ loc[p].id = id
        THEN cards'[id].review_count = cards[id].review_count + 1
        ELSE cards'[id].review_count = cards[id].review_count

\* C8: when reviews do not overlap, the UPDATE of each review raises the
\* review count of its flashcard by exactly 1 and no other step changes a
\* review count, so the count is the initial count plus the number of
\* reviews and never decreases.
C8_ReviewCountIncrements == [][C8_CountStep]_vars

\* The flashcard that started at difficulty 2 with 3 reviews has 5 after two
\* more.
C8_Witness ==
    /\ 1 \in DOMAIN cards
    /\ cards[1].difficulty_level = 20
    /\ cards[1].review_count = 5

\* C9 (as claimed): the difficulty a review stores is the difficulty it
\* computed, fraction included.
C9_StoredIsComputed ==
    \A p \in Procs :
        pc[p] = "awarding" /\ loc[p].id \in DOMAIN cards =>
            cards[loc[p].id].difficulty_level = loc[p].difficultyLevel

C10_Award ==
    \A p \in Procs :
        pc[p] = "awarding" /\ pc'[p] = "idle" =>
            LET g == loc[p].grade
                r == IF g = Num(1) THEN 3 ELSE IF g = Num(2) THEN 2 ELSE 1
            IN points' = [points EXCEPT ![loc[p].user] = @ + r]

\* C10: the last step of a review adds to the points of the reviewing user 3
\* for grade 1, 2 for grade 2 and 1 for any other grade, and changes no other
\* user's points.
C10_RewardPoints == [][C10_Award]_vars

\* User 2 created a flashcard and reviewed it with grade 1.
C10_Witness ==
    /\ points[2] = 3
    /\ res.status = 200
    /\ res.text = "Review recorded"

\* C11 (as claimed): the body of the answer to a successful review holds,
\* besides its message, four values: the updated difficulty, the updated
\* review count, the next-review timestamp and the reward points.
C11_ResponseReportsOutcome ==
    res.text = "Review recorded" =>
        /\ {"nextReview", "difficultyLevel"} \subseteq res.keys
        /\ Cardinality(res.keys \ {"message"}) >= 4

C12_NoGradeStep ==
    \A p \in Procs :
        /\ loc[p].grade.t = "undefined" \/ loc'[p].grade.t = "undefined"
        /\ pc'[p] # pc[p]
        => /\ cards' = cards
           /\ points' = points
           /\ res'.status # 0 => res'.status = 400

\* C12 (as claimed): every step of a handler whose request carries no grade
\* leaves the flashcards and the users' points as they are, and the answer
\* to the request, when it is sent, is a validation failure (status 400),
\* neither 404 nor the 200 of a recorded review.
C12_NoGradeRejected == [][C12_NoGradeStep]_vars

C13_NotFoundStep ==
    /\ res'.text = "Flashcard not found" =>
          /\ res'.status = 404
          /\ cards' = cards
          /\ points' = points
          /\ pc' = pc
    /\ \A p \in Procs :
          pc[p] = "idle" /\ pc'[p] = "updating" =>
              /\ loc'[p].id \in DOMAIN cards
              /\ cards[loc'[p].id].user_id = loc'[p].user

\* C13: the answer "Flashcard not found" has status 404 and its step changes
\* no flashcard and no user's points, and a review goes on to its UPDATE only
\* for a flashcard that exists and belongs to the requesting user.
C13_NotFoundChangesNothing == [][C13_NotFoundStep]_vars

\* Both flashcards exist and belong to user 1, so the request that was
\* answered 404 came from user 2.
C13_Witness ==
    /\ res.status = 404
    /\ DOMAIN cards = CardIds
    /\ \A id \in CardIds : cards[id].user_id = 1

\* ---------------------------------------------------------- claims: quiz
\* A handler that has graded a submission and not yet answered.
Graded(p) == qpc[p] \in {"attempt", "points", "session"}

\* c and d are the same character, or the two cases of one letter.
SameLetter(c, d) == c = d \/ \E k \in 1..26 : {c, d} = {UpperCase[k], LowerCase[k]}

\* s without the whitespace before its first and after its last character
\* that is not whitespace.
Bare(s) ==
    LET n == Len(s)
        a == CHOOSE i \in 1..(n + 1) :
                 /\ \A j \in 1..(i - 1) : s[j] \in WhiteSpace
                 /\ i = n + 1 \/ s[i] \notin WhiteSpace
        b == CHOOSE i \in 0..n :
                 /\ \A j \in (i + 1)..n : s[j] \in WhiteSpace
                 /\ i = 0 \/ s[i] \notin WhiteSpace
    IN [i \in 1..(IF b >= a THEN b - a + 1 ELSE 0) |-> s[a + i - 1]]

\* x and y are equal up to the case of letters and surrounding whitespace.
SameAnswer(x, y) ==
    LET bx == Bare(x)
        by == Bare(y)
    IN Len(bx) = Len(by) /\ \A i \in 1..Len(bx) : SameLetter(bx[i], by[i])

\* The sum of points over the positions in I of the questions qs.
RECURSIVE SumPoints(_, _)
SumPoints(qs, I) ==
    IF I = {} THEN 0
    ELSE LET i == CHOOSE j \in I : TRUE IN qs[i].points + SumPoints(qs, I \ {i})

\* The positions of the results marked correct.
MarkedCorrect(results) == {i \in 1..Len(results) : Truthy(results[i].correct)}

\* C14 (as claimed): the result at position i is that of the question at
\* position i in order of order_index, and it is marked correct exactly when
\* a value was submitted at position i of answers that, as a string, equals
\* the stored correct answer up to case and surrounding whitespace.
C14_MarkedByPosition ==
    \A p \in Procs :
        Graded(p) /\ qloc[p].answers.t = "array" =>
            LET questions == SelectQuestions(qloc[p].quizId)
                results == qloc[p].grade.results
                items == qloc[p].answers.items
            IN /\ Len(results) = Len(questions)
               /\ \A i \in 1..Len(questions) :
                     /\ results[i].questionId = questions[i].id
                     /\ Truthy(results[i].correct) <=>
                            /\ i <= Len(items)
                            /\ items[i].t # "undefined"
                            /\ SameAnswer(ToString(items[i]), questions[i].correct_answer)

\* C15: after grading, totalPoints is the sum of the points of all
\* questions, earnedPoints the sum over the questions marked correct,
\* correctAnswers their number; the score is earnedPoints / totalPoints x
\* 100 when totalPoints > 0; earnedPoints <= totalPoints and 0 <= score <=
\* 100; and the answer reports these values, the score to two decimals.
C15_Scoring ==
    /\ \A p \in Procs :
          Graded(p) =>
              LET questions == SelectQuestions(qloc[p].quizId)
                  g == qloc[p].grade
                  score == qloc[p].score
              IN /\ g.totalPoints = SumPoints(questions, 1..Len(questions))
                 /\ g.earnedPoints = SumPoints(questions, MarkedCorrect(g.results))
                 /\ g.correctAnswers = Cardinality(MarkedCorrect(g.results))
                 /\ g.totalPoints > 0 =>
                        score.den > 0 /\ score.num * g.totalPoints = g.earnedPoints * 100 * score.den
                 /\ g.earnedPoints <= g.totalPoints
                 /\ score.den > 0 /\ 0 <= score.num /\ score.num <= 100 * score.den
    /\ qres.status = 200 =>
          /\ qres.earnedPoints <= qres.totalPoints
          /\ qres.correctAnswers = Cardinality(MarkedCorrect(qres.results))
          /\ qres.score >= 0 /\ qres.score <= 10000
          /\ qres.totalPoints > 0 =>
                 /\ qres.score * qres.totalPoints * 2 >= qres.earnedPoints * 20000 - qres.totalPoints
                 /\ qres.score * qres.totalPoints * 2 <= qres.earnedPoints * 20000 + qres.totalPoints

\* A quiz of a 2-point and a 1-point question: the first was answered
\* correctly (" paris" for "Paris"), the second not; 2 of 3 points, 66.67.
C15_Witness ==
    /\ qres.status = 200
    /\ qres.totalPoints = 3
    /\ qres.earnedPoints = 2
    /\ qres.correctAnswers = 1
    /\ qres.score = 6667

\* The questions of the quiz handler p was asked to grade are worth 0 points
\* together.
ZeroTotal(p) ==
    LET questions == SelectQuestions(qloc[p].quizId)
    IN SumPoints(questions, 1..Len(questions)) = 0

C16_Step ==
    \A p \in Procs :
        qpc[p] # "idle" /\ ZeroTotal(p) =>
            /\ qpc[p] = "questions" /\ qpc'[p] # "questions" =>
                  /\ qpc'[p] = "attempt"
                  /\ qloc'[p].score.den > 0 /\ qloc'[p].score.num = 0
            /\ qpc'[p] = "idle" =>
                  /\ qres'.status = 200
                  /\ qres'.score = 0

\* C16: a submission to a quiz whose questions are worth 0 points together
\* (a quiz without questions included), with any answers or none, is graded
\* with score 0 and is answered with the graded result, status 200 and
\* score 0.00, never with an error.
C16_ZeroTotalScoresZero == [][C16_Step]_vars

\* A submission without answers to a quiz without questions was graded.
C16_Witness ==
    \E p \in Procs :
        /\ qpc[p] = "attempt"
        /\ qloc[p].answers = NoArray
        /\ qloc[p].totalQuestions = 0
        /\ qloc[p].score.num = 0

C17_Step ==
    /\ \A p \in Procs :
          qpc[p] = "points" /\ qpc'[p] = "session" =>
              LET score == qloc[p].score
                  r == CHOOSE k \in 0..10 :
                           /\ k * 10 * score.den <= score.num
                           /\ (k + 1) * 10 * score.den > score.num
              IN points' = [points EXCEPT ![qloc[p].user] = @ + r]
    /\ (\A p \in Procs : ~(qpc[p] = "points" /\ qpc'[p] = "session")) => points' = points
    /\ \A p \in Procs :
          qpc[p] # "idle" /\ qpc'[p] = "idle" /\ qres'.status = 200 => qpc[p] = "session"

\* C17: a successful submission passes once through the UPDATE of the user,
\* which adds the greatest integer not above score / 10 to the points of the
\* submitting user and changes no other user's points; no other step of a
\* quiz route changes points.
C17_QuizRewardPoints == [][C17_Step]_vars

\* User 2 scored 25 (1 of 4 points) and has been credited 2 points.
C17_Witness ==
    \E p \in Procs :
        /\ qpc[p] = "session"
        /\ qloc[p].user = 2
        /\ qloc[p].score = [num |-> 100, den |-> 4]
        /\ points[2] = 2

\* C18 (as claimed): a submission to a quiz without questions is not
\* answered with a graded result (nor with 404).
C18_EmptyQuizOwnCondition ==
    /\ qres.status = 200 => qres.totalQuestions > 0
    /\ \A p \in Procs : Graded(p) => qloc[p].totalQuestions > 0

C18_Step ==
    \A p \in Procs :
        qpc[p] # "idle" /\ SelectQuestions(qloc[p].quizId) = <<>> =>
            /\ qpc[p] = "questions" /\ qpc'[p] # "questions" =>
                  /\ qpc'[p] = "attempt"
                  /\ qloc'[p].totalQuestions = 0
                  /\ qloc'[p].grade.results = <<>>
            /\ qpc[p] = "attempt" /\ qpc'[p] # "attempt" =>
                  /\ Len(quiz_attempts') = Len(quiz_attempts) + 1
                  /\ quiz_attempts'[Len(quiz_attempts')].user_id = qloc[p].user
                  /\ quiz_attempts'[Len(quiz_attempts')].quiz_id = qloc[p].quizId
                  /\ quiz_attempts'[Len(quiz_attempts')].total_questions = 0
                  /\ quiz_attempts'[Len(quiz_attempts')].score = 0
            /\ qpc'[p] = "idle" =>
                  /\ qres'.status = 200
                  /\ qres'.totalQuestions = 0
                  /\ qres'.correctAnswers = 0
                  /\ qres'.results = <<>>

\* C18 (amended): a submission to a quiz that exists and has no questions is
\* graded like any other: an attempt with 0 questions and score 0 is
\* recorded and the answer is the graded result (status 200, 0 questions, no
\* verdicts), which differs from the 404 of a quiz that does not exist.
C18_EmptyQuizGraded == [][C18_Step]_vars

\* The answer to a submission to a quiz without questions.
C18_Witness ==
    /\ qres.status = 200
    /\ qres.totalQuestions = 0
    /\ Len(quiz_attempts) = 1
    /\ quiz_attempts[1].total_questions = 0

\* The quiz of four questions of one point with the answers Paris, 42, true, O(n).
FourQuestions(questions) ==
    /\ Len(questions) = 4
    /\ [i \in 1..4 |-> questions[i].correct_answer] = <<sParis, s42, sTrue, sOn>>
    /\ \A i \in 1..4 : questions[i].points = 1

C19_Marked ==
    \A p \in Procs :
        Graded(p) /\ qloc[p].answers.t = "array" =>
            LET questions == SelectQuestions(qloc[p].quizId)
                g == qloc[p].grade
                items == qloc[p].answers.items
            IN /\ Len(g.results) = Len(questions)
               /\ \A i \in 1..Len(questions) :
                     i > Len(items) \/ items[i] \in {Str(<<>>), Undefined} =>
                         i \notin MarkedCorrect(g.results)
               /\ FourQuestions(questions)
                  /\ items = <<Str(sLyon), Str(s42), Str(sFalse), Str(<<>>)>> =>
                      /\ g.correctAnswers = 1
                      /\ MarkedCorrect(g.results) = {2}
                      /\ ToFixed2(qloc[p].score) = 2500
                      /\ qpc[p] \in {"points", "session"} => qloc[p].pointsEarned = 2

C19_Step ==
    \A p \in Procs :
        qpc[p] = "questions" /\ qpc'[p] # "questions" /\ qloc[p].answers.t = "array" =>
            qpc'[p] = "attempt"

C20_LengthMismatchRejected ==
    \A p \in Procs :
        Graded(p) /\ qloc[p].answers.t = "array" =>
            Len(qloc[p].answers.items) = qloc[p].totalQuestions

\* C21 (as claimed): in every grading result, the correct field of the
\* verdict of each question is true or false, whatever was submitted at its
\* position: a string, the empty string, nothing, the number 0 or false.
C21_CorrectIsBoolean ==
    \A p \in Procs :
        Graded(p) =>
            \A i \in 1..Len(qloc[p].grade.results) :
                qloc[p].grade.results[i].correct.t = "boolean"

\* ------------------------------------------------- claims: records, points
\* The rows of quiz_attempts are as many as the submissions that were
\* answered with success (each has appended its study session) or have gone
\* past their INSERT INTO quiz_attempts.
C22_Count ==
    Len(quiz_attempts) =
        Len(study_sessions) + Cardinality({p \in Procs : qpc[p] \in {"points", "session"}})

C22_Step ==
    /\ Len(quiz_attempts') >= Len(quiz_attempts)
    /\ SubSeq(quiz_attempts', 1, Len(quiz_attempts)) = quiz_attempts
    /\ qres'.status \in {404, 500} => quiz_attempts' = quiz_attempts
    /\ quiz_attempts' # quiz_attempts =>
          /\ Len(quiz_attempts') = Len(quiz_attempts) + 1
          /\ \E p \in Procs :
                /\ qpc[p] = "attempt" /\ qpc'[p] = "points"
                /\ LET a == quiz_attempts'[Len(quiz_attempts')]
                   IN /\ a.user_id = qloc[p].user
                      /\ a.quiz_id = qloc[p].quizId
                      /\ a.score \in 0..10000

\* C22: a submission that is answered with success has created exactly one
\* row of quiz_attempts, with a score from 0 to 100; a submission answered
\* not found (or with an error of the grading) creates none; and no step of
\* a review, a submission or another route that awards points changes or
\* removes a row that exists.
C22_AttemptCreatedOnce == []C22_Count /\ [][C22_Step]_vars

\* A submission and then a review were answered with success, and the
\* attempt of the earlier submission is as it was.
C22_Witness ==
    /\ Len(quiz_attempts) = 2
    /\ quiz_attempts[1].score = 6667
    /\ quiz_attempts[2].score \in {0, 10000}
    /\ Len(study_sessions) = 2
    /\ res.status = 200
    /\ \A p \in Procs : pc[p] = "idle" /\ qpc[p] = "idle"

\* The seconds the submission of handler p took, 0 when the request gave none.
SecondsTaken(p) ==
    IF qloc[p].timeTakenSeconds.t = "number" THEN qloc[p].timeTakenSeconds.n ELSE 0

C23_Step ==
    /\ \A p \in Procs :
          qpc[p] = "points" /\ qpc'[p] = "session" =>
              /\ points' = [points EXCEPT ![qloc[p].user] = @ + qloc[p].pointsEarned]
              /\ qloc'[p] = qloc[p]
              /\ study_sessions' = study_sessions
    /\ \A p \in Procs :
          qpc[p] = "session" /\ qpc'[p] = "idle" =>
              /\ qres'.status = 200
              /\ Len(study_sessions') = Len(study_sessions) + 1
              /\ SubSeq(study_sessions', 1, Len(study_sessions)) = study_sessions
              /\ LET s == study_sessions'[Len(study_sessions')]
                 IN /\ s.user_id = qloc[p].user
                    /\ s.session_type = "quiz"
                    /\ s.duration_minutes = LeastAtLeast(SecondsTaken(p), 60)
                    /\ s.points_earned = qloc[p].pointsEarned
    /\ study_sessions' # study_sessions =>
          \E p \in Procs : qpc[p] = "session" /\ qpc'[p] = "idle"

\* C23: the step that answers a submission with success appends exactly one
\* row to study_sessions: for the submitting user, of type quiz, with the
\* least number of minutes that covers timeTakenSeconds (0 when the request
\* gave none) and with the points the UPDATE of the user added for this
\* submission; no other step appends a study session.
C23_StudySessionAppended == [][C23_Step]_vars

\* A submission of 61 seconds with score 100 was answered: 2 minutes, 10 points.
C23_Witness ==
    /\ qres.status = 200
    /\ Len(study_sessions) = 2
    /\ study_sessions[2].duration_minutes = 2
    /\ study_sessions[2].points_earned = 10
    /\ \E u \in Users : study_sessions[2].user_id = u /\ points[u] = ServerPoints[u] + 10

C24_Step == \A u \in Users : points'[u] >= points[u]

\* C24: no step of a review, a quiz submission, an enrollment, a progress
\* update or a message to the assistant lowers the points of a user, so in
\* every interleaving of them a user's points are at least what they were
\* in every earlier state.
C24_PointsNeverDecrease == [][C24_Step]_vars

\* User 1 has enrolled in course 1 and reviewed the flashcard with grade 1,
\* and both requests were answered.
C24_Witness ==
    /\ \A p \in Procs : pc[p] = "idle" /\ qpc[p] = "idle" /\ cpc[p].at = "idle"
    /\ Enrolled(1, 1)
    /\ earned[1] = EnrollPoints + PointsEarned(Num(1))
    /\ points[1] = ServerPoints[1] + earned[1]

\* Handler q has written the flashcard that handler p is about to write, and
\* both have read the same row of it: both read before either wrote.
RacedBy(p, q) ==
    /\ q # p
    /\ pc[p] = "updating" /\ pc[q] = "awarding"
    /\ loc[q].id = loc[p].id
    /\ loc[q].flashcard = loc[p].flashcard

C25_Step ==
    \A p \in Procs :
        pc[p] = "updating" /\ pc'[p] = "awarding" /\ loc[p].id \in DOMAIN cards
        /\ (\E q \in Procs : RacedBy(p, q)) =>
            LET id == loc[p].id
            IN /\ cards'[id].difficulty_level = StoreInt(loc[p].difficultyLevel)
               /\ cards'[id].next_review = loc[p].nextReview
               /\ cards'[id].review_count = loc[p].reviewCount
               /\ cards'[id].review_count = loc[p].flashcard.review_count + 1

\* C25: when two reviews of a flashcard have both read it before either
\* writes, the later UPDATE leaves the difficulty, the review count and the
\* next review it computed from the row it read, whatever the earlier
\* UPDATE wrote: the review count is the count both read plus 1.
C25_LastWriteWins == [][C25_Step]_vars

\* Both reviews have written; the grades differ, and the flashcard holds what
\* handler 2 computed and a review count one above the count both read.
C25_Witness ==
    /\ pc[1] = "awarding" /\ pc[2] = "awarding"
    /\ loc[1].id = loc[2].id /\ loc[1].id \in DOMAIN cards
    /\ loc[1].flashcard = loc[2].flashcard
    /\ loc[1].difficultyLevel # loc[2].difficultyLevel
    /\ cards[loc[2].id].difficulty_level = StoreInt(loc[2].difficultyLevel)
    /\ cards[loc[2].id].next_review = loc[2].nextReview
    /\ cards[loc[2].id].review_count = loc[2].flashcard.review_count + 1

\* No request is in progress.
Quiet ==
    \A p \in Procs : pc[p] = "idle" /\ qpc[p] = "idle" /\ cpc[p].at = "idle"

\* C27: whenever every request has been answered, the points of each user
\* are the points the user started with plus the rewards of the user's
\* requests that were answered with success, however the handlers were
\* interleaved, also when two reviews raced on a flashcard and the review
\* count rose by one only.
C27_AwardsNeverLost ==
    Quiet => \A u \in Users : points[u] = ServerPoints[u] + earned[u]

\* Two reviews of user 1 with grade 1 raced on flashcard 1: the review
\* count rose from 1 to 2, the points by 3 + 3.
C27_Witness ==
    /\ Quiet
    /\ events = 2
    /\ cards[1].review_count = ReviewedCard(1, 0).review_count + 1
    /\ earned[1] = 2 * PointsEarned(Num(1))
    /\ points[1] = ServerPoints[1] + earned[1]

\* C28 (as claimed): the points of a user rise in the step that answers a
\* review only if the UPDATE of that review found its flashcard: a review
\* whose flashcard was deleted between its SELECT and its UPDATE adds
\* nothing.
C28_Step ==
    \A p \in Procs :
        pc[p] = "awarding" /\ pc'[p] = "idle" /\ loc[p].id \notin DOMAIN cards =>
            points' = points

C28_RewardOnlyForAppliedUpdate == [][C28_Step]_vars

\* ------------------------------------------------ claims: the SQL splitter
\* The characters of the tag of a dollar-quoted string in PostgreSQL.
TagChars ==
    {LowerCase[k] : k \in 1..26} \cup {UpperCase[k] : k \in 1..26}
    \cup {Digit[k] : k \in 1..10} \cup {"_"}

\* What each character of a text is part of, read as PostgreSQL reads it:
\* a dollar-quoted string ($$...$$ or $tag$...$tag$, delimiters included;
\* start is the position of its first character), a dollar-quoted string
\* that is never closed ("open"), a comment from -- to the end of the line,
\* or none of these ("plain").
RECURSIVE Lex(_, _, _)
Lex(s, k, acc) ==
    IF k > Len(s) THEN acc
    ELSE IF s[k] = "$"
    THEN LET j == CHOOSE x \in (k + 1)..(Len(s) + 1) :
                      /\ x = Len(s) + 1 \/ s[x] \notin TagChars
                      /\ \A y \in (k + 1)..(x - 1) : s[y] \in TagChars
             tag == SubSeq(s, k, j)
             closes == {m \in (j + 1)..Len(s) : StartsWithAt(s, m - 1, tag)}
         IN IF j > Len(s) \/ s[j] # "$"
            THEN Lex(s, k + 1, Append(acc, [kind |-> "plain", start |-> 0]))
            ELSE IF closes = {}
            THEN acc \o [x \in 1..(Len(s) - k + 1) |-> [kind |-> "open", start |-> k]]
            ELSE LET m == CHOOSE x \in closes : \A y \in closes : x <= y
                     e == m + Len(tag) - 1
                 IN Lex(s, e + 1,
                        acc \o [x \in 1..(e - k + 1) |-> [kind |-> "quote", start |-> k]])
    ELSE IF s[k] = "-" /\ k < Len(s) /\ s[k + 1] = "-"
    THEN LET nl == CHOOSE x \in k..(Len(s) + 1) :
                       /\ x = Len(s) + 1 \/ s[x] = "\n"
                       /\ \A y \in k..(x - 1) : s[y] # "\n"
         IN Lex(s, nl, acc \o [x \in 1..(nl - k) |-> [kind |-> "comment", start |-> k]])
    ELSE Lex(s, k + 1, Append(acc, [kind |-> "plain", start |-> 0]))

\* The dollar-quoted strings of a text: first and last position of each.
DollarQuoted(s) ==
    LET cls == Lex(s, 1, <<>>)
        starts == {k \in 1..Len(s) : cls[k].kind = "quote" /\ cls[k].start = k}
    IN {<<k, CHOOSE e \in k..Len(s) :
                 /\ cls[e].kind = "quote" /\ cls[e].start = k
                 /\ e = Len(s) \/ cls[e + 1].kind # "quote" \/ cls[e + 1].start # k>> :
           k \in starts}

\* sub occurs in st.
Contains(st, sub) ==
    \E k \in 0..(Len(st) - Len(sub)) : SubSeq(st, k + 1, k + Len(sub)) = sub

C29_Step ==
    LET cls == Lex(sql, 1, <<>>)
    IN /\ ~inDollarQuote /\ CharAt(sql, sqlIndex) = ";" /\ sqlIndex' = sqlIndex + 1 =>
              cls[sqlIndex + 1].kind # "quote"
       /\ Len(currentStatement') > Len(currentStatement) \/ statements' # statements =>
              \A j \in (sqlIndex + 1)..sqlIndex' : cls[j].kind # "comment"

C29_Done ==
    parsed =>
        /\ \A k \in 1..Len(statements) : statements[k] # <<>> /\ statements[k] # <<";">>
        /\ \A b \in DollarQuoted(sql) :
              \E k \in 1..Len(statements) : Contains(statements[k], SubSeq(sql, b[1], b[2]))

\* C29 (as claimed): no step of the parser ends a statement at a semicolon
\* inside a dollar-quoted string, so every dollar-quoted string is whole in
\* one of the returned statements; no character of a -- comment that
\* is outside the dollar-quoted strings is added to a statement; and no
\* returned statement is empty or the semicolon alone.
C29_DollarQuotesStayWhole == []C29_Done /\ [][C29_Step]_vars

\* ------------------------------------------------- claims: initializeDatabase

\* The call of initializeDatabase that last started has returned.
Returned == ipc = "idle" /\ runs > 0

\* The CREATE TRIGGER statements: what a second run finds in place and cannot
\* create again.
NotRepeatable == {k \in 1..Len(Schema) : Schema[k].kind = "trigger"}

\* C26: initializeDatabase is idempotent: run again on a database that an
\* earlier run already initialized, with no failure from outside the schema,
\* it changes no schema object, counts every "already exists" failure as
\* skipped and none as an error, and returns true.
C26_Idempotent ==
    (Returned /\ atStart.initialized /\ faults = 0) =>
        /\ schema_objects = atStart.objects
        /\ users_columns = atStart.columns
        /\ returned = "true"
        /\ atStart.enabled =>
               /\ errorCount = 0
               /\ skipCount = Cardinality(NotRepeatable)
               /\ successCount = Len(Schema) - Cardinality(NotRepeatable)

\* A second run over the database the first run completed has returned true,
\* its two CREATE TRIGGER statements skipped.
C26_Witness ==
    /\ Returned
    /\ runs = 2
    /\ atStart.initialized
    /\ atStart.enabled
    /\ atStart.objects = SchemaNames
    /\ faults = 0
    /\ skipCount = 2
    /\ returned = "true"

\* C30: when initializeDatabase has verified that the critical tables exist
\* and the users table lacks some of the profile columns, every missing
\* column has been added when it returns.
C30_AddsMissingColumns ==
    (Returned /\ atStart.enabled /\ hasMissingTables = "false") =>
        requiredColumns \subseteq users_columns

=============================================================================
